---- MODULE Spec2Model ----
(***************************************************************************)
(* Model of the kanban backend: the auth service (app/auth.rs) on top of   *)
(* the in-memory users, sessions and tasks repositories                    *)
(* (storage/inmemory/*.rs).                                                *)
(*                                                                         *)
(* Every repository method takes its repository's mutex for the whole      *)
(* method, so one repository call is one atomic step.  The service         *)
(* methods are async functions that call several repository methods in a   *)
(* row; requests run concurrently, so the steps of different requests      *)
(* interleave between two repository calls.                                *)
(***************************************************************************)
EXTENDS Integers, Sequences, FiniteSets, TLC

----------------------------------------------------------------------------
(* Bounds of the model *)

\* Number of concurrently served requests (processes).
NumProcs == 2
\* Largest user id the users repository hands out or is seeded with.
MaxUserId == 2
\* Number of calls made in one run: the add_user calls of the set-up and the
\* service calls (create_user, login_user) together.
MaxCalls == 3
\* Size of the range the random session tokens are drawn from.
NumTokens == 2
\* Size of the range the random task and category ids are drawn from.
NumRandomIds == 2
\* Largest number of tasks, and of categories, a board is assembled from.
MaxBoardLen == 2
\* Largest number of characters of a username or password that is validated.
MaxStrLen == 9

Procs == 1..NumProcs
UserIds == 1..MaxUserId
Tokens == 1..NumTokens

NoUserId == 0
NoToken == 0

----------------------------------------------------------------------------
(* Strings are sequences of characters; an ASCII character is a one-letter
   string.  "e-acute" and "E-acute" are the letters U+00E9 (lowercase) and
   U+00C9 (uppercase), of two bytes each in UTF-8. *)

LowercaseLetters ==
    {"a","b","c","d","e","f","g","h","i","j","k","l","m",
     "n","o","p","q","r","s","t","u","v","w","x","y","z"}
UppercaseLetters ==
    {"A","B","C","D","E","F","G","H","I","J","K","L","M",
     "N","O","P","Q","R","S","T","U","V","W","X","Y","Z"}
AsciiDigits == {"0","1","2","3","4","5","6","7","8","9"}
NonAsciiLowercaseLetters == {"e-acute"}
NonAsciiUppercaseLetters == {"E-acute"}
SPECIAL_CHARS == {"$", "@", "!"}

\* char::is_alphabetic, char::is_lowercase, char::is_uppercase,
\* char::is_ascii_digit on the characters of the model.
IsAlphabetic(c) ==
    c \in LowercaseLetters \cup UppercaseLetters
          \cup NonAsciiLowercaseLetters \cup NonAsciiUppercaseLetters
IsLowercase(c) == c \in LowercaseLetters \cup NonAsciiLowercaseLetters
IsUppercase(c) == c \in UppercaseLetters \cup NonAsciiUppercaseLetters
IsAsciiDigit(c) == c \in AsciiDigits

\* str::len is the length in bytes of the UTF-8 encoding.
Utf8Len(c) ==
    IF c \in NonAsciiLowercaseLetters \cup NonAsciiUppercaseLetters THEN 2 ELSE 1
RECURSIVE StrLen(_)
StrLen(s) == IF s = <<>> THEN 0 ELSE Utf8Len(Head(s)) + StrLen(Tail(s))

\* n times the character c
Run(c, n) == [i \in 1..n |-> c]

AllChars(s, F(_)) == \A i \in 1..Len(s) : F(s[i])
AnyChar(s, F(_)) == \E i \in 1..Len(s) : F(s[i])

IsAllowedUsernameCharacter(c) ==
    IsAlphabetic(c) \/ IsAsciiDigit(c) \/ c = "_"

validate_username(username) ==
    LET sufficient_length == StrLen(username) >= 6
        all_chars_allowed == AllChars(username, IsAllowedUsernameCharacter)
    IN  sufficient_length /\ all_chars_allowed

IsAllowedPasswordCharacter(c) ==
    IsAlphabetic(c) \/ IsAsciiDigit(c) \/ c \in SPECIAL_CHARS

IsSpecialChar(c) == c \in SPECIAL_CHARS

validate_password(password) ==
    LET sufficient_length == StrLen(password) >= 8
        all_chars_allowed == AllChars(password, IsAllowedPasswordCharacter)
        has_lowercase_letter == AnyChar(password, IsLowercase)
        has_uppercase_letter == AnyChar(password, IsUppercase)
        has_digit == AnyChar(password, IsAsciiDigit)
        has_special_symbol == AnyChar(password, IsSpecialChar)
    IN  /\ sufficient_length
        /\ all_chars_allowed
        /\ has_lowercase_letter
        /\ has_uppercase_letter
        /\ has_digit
        /\ has_special_symbol

----------------------------------------------------------------------------
(* The inputs the requests are made with *)

\* "user_1", "User_1" (differs in letter case only), "usr_1" (too short).
UserLower == <<"u","s","e","r","_","1">>
UserUpper == <<"U","s","e","r","_","1">>
UserShort == <<"u","s","r","_","1">>
Usernames == {UserLower, UserUpper, UserShort}

\* "Ab12345@", "Ab12345!", "ABCabc123" (no special character).
PasswordA == <<"A","b","1","2","3","4","5","@">>
PasswordB == <<"A","b","1","2","3","4","5","!">>
PasswordNoSpecial == <<"A","B","C","a","b","c","1","2","3">>
Passwords == {PasswordA, PasswordB, PasswordNoSpecial}

\* The (username, password) pairs the service is called with.
Credentials ==
    {<<UserLower, PasswordA>>, <<UserLower, PasswordB>>, <<UserUpper, PasswordA>>,
     <<UserShort, PasswordA>>, <<UserLower, PasswordNoSpecial>>,
     <<UserShort, PasswordNoSpecial>>}

\* The users a test seeds the repository with all have this password.
SeedPasswords == {PasswordA}

DEFAULT_CATEGORIES == <<"ToDo", "In progress", "Completed">>

\* The range generate_random_task_id draws from in the runs of the auth
\* service: the category ids play no part in what the auth service answers.
AuthRandomIds == {1}

\* The range generate_random_task_id draws from where the ids matter.
RandomIds == 1..NumRandomIds

\* The registrations made where the default categories are looked at.
HookCredentials == {<<UserLower, PasswordA>>, <<UserUpper, PasswordA>>}

----------------------------------------------------------------------------
(* State *)

VARIABLES
    next_id,        \* MutableUsersStorage::next_id
    users_by_id,    \* MutableUsersStorage::users_by_id : UserId -> UserStorage
    users_by_name,  \* MutableUsersStorage::users_by_name : String -> UserId
    sessions,       \* InMemorySessions::sessions : token -> UserId
    categories,     \* InMemoryTasks::categories : Vec<TaskCategoryStorage>
    tasks,          \* InMemoryTasks::tasks : Vec<TaskStorage>
    phase,          \* "setup" while a test seeds the repositories, then "serving"
    pc,             \* per request: where its service call stands
    call,           \* per request: the arguments and locals of its call
    returned,       \* the call that returned last: arguments and result
    created,        \* history: what every successful create_user returned
    attempts,       \* history: per username, the create_user calls made with it
    calls_left,     \* calls left
    random_ids,     \* the range generate_random_task_id draws from in this run
    issued,         \* history: <<token, user id>> of every successful create_user_session
    db,             \* the tables of the database behind DatabaseConnection
    database        \* Context::database : OnceLock, empty or holding one connection

vars == <<next_id, users_by_id, users_by_name, sessions, categories, tasks,
          phase, pc, call, returned, created, attempts, calls_left,
          random_ids, issued, db, database>>

users_vars == <<next_id, users_by_id, users_by_name>>
tasks_vars == <<categories, tasks>>

EmptyMap == [x \in {} |-> 0]

NoCall ==
    [op |-> "none", username |-> <<>>, password |-> <<>>,
     user_id |-> NoUserId, token |-> NoToken, prior |-> {}]

NoReturn ==
    [op |-> "none", username |-> <<>>, password |-> <<>>,
     user_id |-> NoUserId, token |-> NoToken, prior |-> {}, ret |-> "none"]

\* The database before any call: every table is empty.  `users_seq` is the
\* sequence behind the user_id column.
EmptyDb ==
    [users |-> <<>>, users_seq |-> 1, sessions |-> <<>>, tasks |-> <<>>,
     task_categories |-> <<>>]

\* InMemoryUsers::new, InMemorySessions::new, InMemoryTasks::new
InitRepositories ==
    /\ next_id = 1
    /\ users_by_id = EmptyMap
    /\ users_by_name = EmptyMap
    /\ sessions = EmptyMap
    /\ categories = <<>>
    /\ tasks = <<>>
    /\ db = EmptyDb
    /\ database = {}

InitRequests ==
    /\ pc = [p \in Procs |-> "ready"]
    /\ call = [p \in Procs |-> NoCall]
    /\ returned = NoReturn
    /\ created = {}
    /\ attempts = [u \in Usernames |-> 0]
    /\ issued = {}
    /\ calls_left = MaxCalls

\* main.rs: create_inmemory_repositories, create_context; nothing is seeded.
Init ==
    /\ InitRepositories
    /\ InitRequests
    /\ random_ids = AuthRandomIds
    /\ phase = "serving"

\* tests: the repositories are built first and may be seeded with add_user
\* before the service is constructed around them.
InitSeeded ==
    /\ InitRepositories
    /\ InitRequests
    /\ random_ids = AuthRandomIds
    /\ phase = "setup"

----------------------------------------------------------------------------
(* Users repository (storage/inmemory/users.rs) *)

UserStorage(username, password) ==
    [username |-> username, password |-> password]

\* HashMap::insert: adds the key or replaces its value.
MapInsert(map, key, value) == (key :> value) @@ map

does_user_exist_by_username(username) == username \in DOMAIN users_by_name

\* Option<String>: a one-element set, or the empty set for None.
get_username(user_id) ==
    IF user_id \in DOMAIN users_by_id
    THEN {users_by_id[user_id].username}
    ELSE {}

\* Option<(UserId, String)>
find_user_with_password(username) ==
    IF username \in DOMAIN users_by_name
    THEN {<<users_by_name[username],
            users_by_id[users_by_name[username]].password>>}
    ELSE {}

\* A create_user that forgets to advance next_id.
UsersCreateUserSameId(username, password) ==
    /\ next_id' = next_id
    /\ users_by_id' = MapInsert(users_by_id, next_id, UserStorage(username, password))
    /\ users_by_name' = MapInsert(users_by_name, username, next_id)

\* InMemoryUsers::create_user: the state change; the id it returns is next_id.
UsersCreateUser(username, password) ==
    /\ next_id' = next_id + 1
    /\ users_by_id' = MapInsert(users_by_id, next_id, UserStorage(username, password))
    /\ users_by_name' = MapInsert(users_by_name, username, next_id)

\* InMemoryUsers::add_user
AddUser(user_id, username, password) ==
    /\ phase = "setup"
    /\ calls_left > 0
    /\ calls_left' = calls_left - 1
    /\ next_id' = user_id + 1
    /\ users_by_id' = MapInsert(users_by_id, user_id, UserStorage(username, password))
    /\ users_by_name' = MapInsert(users_by_name, username, user_id)
    /\ UNCHANGED <<sessions, tasks_vars, phase, pc, call, returned, created, attempts,
                   random_ids, issued, db, database>>

\* AuthService::new: from here on the repositories are reached through the
\* repository traits only.
NewAuthService ==
    /\ phase = "setup"
    /\ phase' = "serving"
    /\ UNCHANGED <<users_vars, sessions, tasks_vars, pc, call, returned, created,
                   attempts, calls_left, random_ids, issued, db, database>>

----------------------------------------------------------------------------
(* Sessions repository (storage/inmemory/sessions.rs) *)

\* A lookup that takes an unknown token for a session of the first user.
GetAuthorizedUserIdNeverAbsent(token) ==
    IF token \in DOMAIN sessions THEN {sessions[token]} ELSE {1}

\* Option<UserId>
get_authorized_user_id(token) ==
    IF token \in DOMAIN sessions THEN {sessions[token]} ELSE {}

\* SessionToken::generate_random: what the generator may return.  It may
\* return any token.  Tokens are only compared with each other, so the
\* tokens that are not stored are interchangeable and the least of them
\* stands for all of them.
GenerateRandomToken ==
    LET unused == Tokens \ DOMAIN sessions
    IN  (DOMAIN sessions)
        \cup {r \in unused : \A other \in unused : r <= other}

\* A create_user_session without the contains_key check.
SessionTokenNeverChecked(r) == TRUE

\* InMemorySessions::create_user_session with r the generated token:
\* TRUE when the token is new (it is then stored), FALSE for the error.
SessionTokenIsUnique(r) == r \notin DOMAIN sessions

\* A create_user_session that keeps one session per user: the new token
\* replaces the user's earlier ones.
SessionsAfterCreateOnePerUser(r, user_id) ==
    IF SessionTokenIsUnique(r)
    THEN MapInsert([t \in {x \in DOMAIN sessions : sessions[x] # user_id}
                       |-> sessions[t]], r, user_id)
    ELSE sessions

SessionsAfterCreate(r, user_id) ==
    IF SessionTokenIsUnique(r) THEN MapInsert(sessions, r, user_id) ELSE sessions

\* history: create_user_session(user_id) answered Ok(r).
IssuedAfterCreate(r, user_id) ==
    IF SessionTokenIsUnique(r) THEN issued \cup {<<r, user_id>>} ELSE issued

----------------------------------------------------------------------------
(* Tasks repository: categories (storage/inmemory/tasks.rs) *)

TaskCategoryDescription(category_id, label) ==
    [category_id |-> category_id, label |-> label]

TaskCategoryStorage(user_id, category_id, label) ==
    [user_id |-> user_id,
     category_desc |-> TaskCategoryDescription(category_id, label)]

\* the first loop of add_categories: every generated id is looked up among
\* the stored categories of the user.
CategoryIdsAreUnique(user_id, ids) ==
    \A i \in 1..Len(ids) :
        ~ \E k \in 1..Len(categories) :
            /\ categories[k].user_id = user_id
            /\ categories[k].category_desc.category_id = ids[i]

\* An add_categories that checks and pushes in one loop: the labels before the
\* first id that is already stored stay pushed when it fails.
CategoriesAfterAddOneLoop(user_id, labels, ids) ==
    LET taken == {i \in 1..Len(ids) :
                    \E k \in 1..Len(categories) :
                        /\ categories[k].user_id = user_id
                        /\ categories[k].category_desc.category_id = ids[i]}
        pushed == IF taken = {}
                  THEN Len(labels)
                  ELSE (CHOOSE i \in taken : \A j \in taken : i <= j) - 1
    IN  categories
        \o [i \in 1..pushed |-> TaskCategoryStorage(user_id, ids[i], labels[i])]

\* An add_categories that replaces the store by its batch.
CategoriesAfterAddReplacing(user_id, labels, ids) ==
    [i \in 1..Len(labels) |-> TaskCategoryStorage(user_id, ids[i], labels[i])]

\* the second loop of add_categories: one push per description.
CategoriesAfterAdd(user_id, labels, ids) ==
    IF CategoryIdsAreUnique(user_id, ids)
    THEN categories
         \o [i \in 1..Len(labels) |-> TaskCategoryStorage(user_id, ids[i], labels[i])]
    ELSE categories

\* A fetch_categories without the filter on the user.
FetchCategoriesOfAllUsers(user_id) ==
    [i \in 1..Len(categories) |-> categories[i].category_desc]

\* filter on the user, then map to the descriptions
fetch_categories(user_id) ==
    LET own == SelectSeq(categories, LAMBDA c : c.user_id = user_id)
    IN  [i \in 1..Len(own) |-> own[i].category_desc]

----------------------------------------------------------------------------
(* Tasks repository: tasks (storage/inmemory/tasks.rs) *)

TaskDescription(task_id, label, description, category_id) ==
    [task_id |-> task_id, label |-> label, description |-> description,
     category_id |-> category_id]

TaskStorage(user_id, task_desc) == [user_id |-> user_id, task_desc |-> task_desc]

\* filter on the user, then map to the descriptions
fetch_tasks(user_id) ==
    LET own == SelectSeq(tasks, LAMBDA s : s.user_id = user_id)
    IN  [i \in 1..Len(own) |-> own[i].task_desc]

\* A find that compares the task id only.
FindTaskOfAnyUser(user_id, task_id) ==
    {k \in 1..Len(tasks) : tasks[k].task_desc.task_id = task_id}

\* the positions of the stored tasks that match (user_id, task_id)
FindTask(user_id, task_id) ==
    {k \in 1..Len(tasks) :
        tasks[k].user_id = user_id /\ tasks[k].task_desc.task_id = task_id}

\* create_task with task_id the generated id: Err when the user has a task
\* with this id, else the task is pushed and Ok(task_id) returned.
CreateTaskResult(user_id, task_id) ==
    IF FindTask(user_id, task_id) # {} THEN "Err" ELSE "Ok"

\* A create_task without the search for a task with the generated id.
TasksAfterCreateUnchecked(user_id, task_id, label, description, category_id) ==
    Append(tasks, TaskStorage(user_id,
               TaskDescription(task_id, label, description, category_id)))

\* A create_task that stores the task only when the user has the category.
TasksAfterCreateValidating(user_id, task_id, label, description, category_id) ==
    IF \/ FindTask(user_id, task_id) # {}
       \/ \A k \in 1..Len(categories) :
             ~ ( /\ categories[k].user_id = user_id
                 /\ categories[k].category_desc.category_id = category_id )
    THEN tasks
    ELSE Append(tasks, TaskStorage(user_id,
                    TaskDescription(task_id, label, description, category_id)))

TasksAfterCreate(user_id, task_id, label, description, category_id) ==
    IF FindTask(user_id, task_id) # {}
    THEN tasks
    ELSE Append(tasks, TaskStorage(user_id,
                    TaskDescription(task_id, label, description, category_id)))

\* modify_task: Err("no such task") when nothing matches, else the first
\* match gets the new label, description and category.
ModifyTaskResult(user_id, task_id) ==
    IF FindTask(user_id, task_id) = {} THEN "Err" ELSE "Ok"

\* A modify_task whose search ignores the user: every task under the id gets
\* the new values.
TasksAfterModifyAnyUser(user_id, task_id, label, description, category_id) ==
    [k \in 1..Len(tasks) |->
        IF tasks[k].task_desc.task_id = task_id
        THEN [tasks[k] EXCEPT !.task_desc =
                 TaskDescription(task_id, label, description, category_id)]
        ELSE tasks[k]]

TasksAfterModify(user_id, task_id, label, description, category_id) ==
    LET found == FindTask(user_id, task_id)
    IN  IF found = {}
        THEN tasks
        ELSE LET first == CHOOSE k \in found : \A other \in found : k <= other
             IN  [tasks EXCEPT ![first].task_desc =
                     TaskDescription(task_id, label, description, category_id)]

\* delete_task: retain_mut keeps the elements its closure accepts, and the
\* closure accepts the tasks that match (user_id, task_id).  Always Ok.
DeleteTaskResult(user_id, task_id) == "Ok"

TasksAfterDelete(user_id, task_id) ==
    SelectSeq(tasks, LAMBDA t :
        t.user_id = user_id /\ t.task_desc.task_id = task_id)

\* add_categories: Err when a generated id is stored for the user already.
AddCategoriesResult(user_id, ids) ==
    IF CategoryIdsAreUnique(user_id, ids) THEN "Ok" ELSE "Err"

----------------------------------------------------------------------------
(* Database repositories (storage/db/*.rs).  A table is the sequence of its
   rows.  The statements are those of the code; what the tables' constraints
   refuse is not in the sources and follows the specification. *)

\* users: the username is unique.
DbUsernameIsFree(username) ==
    \A k \in 1..Len(db.users) : db.users[k].username # username

\* tasks and task_categories: the id is unique within the user.
DbTaskKeyIsFree(user_id, task_id) ==
    \A k \in 1..Len(db.tasks) :
        ~ (db.tasks[k].user_id = user_id /\ db.tasks[k].task_id = task_id)

DbCategoryKeysAreFree(user_id, ids) ==
    /\ \A i \in 1..Len(ids) : \A k \in 1..Len(db.task_categories) :
          ~ ( /\ db.task_categories[k].user_id = user_id
              /\ db.task_categories[k].category_id = ids[i] )
    /\ \A i, j \in 1..Len(ids) : ids[i] = ids[j] => i = j

\* DbUsers::create_user: INSERT INTO users ... RETURNING user_id
DbCreateUserResult(username) ==
    IF DbUsernameIsFree(username) THEN "Ok" ELSE "Err"

DbAfterCreateUser(username, password) ==
    IF DbUsernameIsFree(username)
    THEN [db EXCEPT !.users = Append(@, [user_id |-> db.users_seq,
                                         username |-> username,
                                         password |-> password]),
                    !.users_seq = @ + 1]
    ELSE db

\* DbUsers::get_username: SELECT username FROM users WHERE user_id=$1 with
\* fetch_one, which answers Err(RowNotFound) when no row is selected.
DbGetUsername(user_id) ==
    LET rows == SelectSeq(db.users, LAMBDA r : r.user_id = user_id)
    IN  IF rows = <<>>
        THEN [class |-> "failure", value |-> {}]
        ELSE [class |-> "success", value |-> {rows[1].username}]

\* DbTasks::fetch_tasks: SELECT ... FROM tasks WHERE user_id=$1
DbFetchTasks(user_id) ==
    LET rows == SelectSeq(db.tasks, LAMBDA r : r.user_id = user_id)
    IN  [i \in 1..Len(rows) |->
            TaskDescription(rows[i].task_id, rows[i].label, rows[i].description,
                            rows[i].category_id)]

\* DbTasks::create_task: INSERT INTO tasks ...
DbCreateTaskResult(user_id, task_id) ==
    IF DbTaskKeyIsFree(user_id, task_id) THEN "Ok" ELSE "Err"

DbTasksAfterCreate(user_id, task_id, label, description, category_id) ==
    IF DbTaskKeyIsFree(user_id, task_id)
    THEN Append(db.tasks, [user_id |-> user_id, task_id |-> task_id,
                           category_id |-> category_id, label |-> label,
                           description |-> description])
    ELSE db.tasks

\* rows_affected of a statement with WHERE user_id=.. AND task_id=..
DbRowsAffected(user_id, task_id) ==
    Cardinality({k \in 1..Len(db.tasks) :
        db.tasks[k].user_id = user_id /\ db.tasks[k].task_id = task_id})

\* DbTasks::modify_task: UPDATE tasks SET ... WHERE user_id=.. AND task_id=..
DbModifyTaskResult(user_id, task_id) ==
    IF DbRowsAffected(user_id, task_id) = 0 THEN "Err" ELSE "Ok"

DbTasksAfterModify(user_id, task_id, label, description, category_id) ==
    [k \in 1..Len(db.tasks) |->
        IF db.tasks[k].user_id = user_id /\ db.tasks[k].task_id = task_id
        THEN [db.tasks[k] EXCEPT !.label = label, !.description = description,
                                 !.category_id = category_id]
        ELSE db.tasks[k]]

\* DbTasks::delete_task: DELETE FROM tasks WHERE user_id=.. AND task_id=..
DbDeleteTaskResult(user_id, task_id) ==
    IF DbRowsAffected(user_id, task_id) = 0 THEN "Err" ELSE "Ok"

DbTasksAfterDelete(user_id, task_id) ==
    SelectSeq(db.tasks, LAMBDA r :
        ~ (r.user_id = user_id /\ r.task_id = task_id))

\* DbTasks::fetch_categories: SELECT ... FROM task_categories WHERE user_id=$1
DbFetchCategories(user_id) ==
    LET rows == SelectSeq(db.task_categories, LAMBDA r : r.user_id = user_id)
    IN  [i \in 1..Len(rows) |->
            TaskCategoryDescription(rows[i].category_id, rows[i].label)]

\* DbTasks::add_categories: the INSERTs of one transaction; an INSERT that
\* fails returns before the commit and the transaction is rolled back.
DbAddCategoriesResult(user_id, ids) ==
    IF DbCategoryKeysAreFree(user_id, ids) THEN "Ok" ELSE "Err"

DbCategoriesAfterAdd(user_id, labels, ids) ==
    IF DbCategoryKeysAreFree(user_id, ids)
    THEN db.task_categories
         \o [i \in 1..Len(labels) |->
                [user_id |-> user_id, category_id |-> ids[i], label |-> labels[i]]]
    ELSE db.task_categories

----------------------------------------------------------------------------
(* Responses (api/response.rs) and the auth routes (api/controllers/auth.rs) *)

\* Response<T> (api/response.rs).  Success carries the body {error_code,
\* data}, data an Option (a one-element set, or the empty set for None);
\* ServerError carries no body and is answered with status 500.
from_error(error_code) ==
    [kind |-> "Success", error_code |-> error_code, data |-> {}]

from_data(data) ==
    [kind |-> "Success", error_code |-> "", data |-> {data}]

\* FromResidual: what `?` makes of an Err of anyhow::Result.
from_residual == [kind |-> "ServerError"]

UserResponse(username) == [username |-> username]

\* A login that answers an unknown username like a wrong password.
LoginResponseOneTag(result, username) ==
    CASE result = "Ok" -> from_data(UserResponse(username))
      [] result = "UserNotFound" -> from_error("incorrect_password")
      [] result = "IncorrectPassword" -> from_error("incorrect_password")
      [] result = "InternalError" -> from_residual

\* login: the match on auth.login_user(..).await?
LoginResponse(result, username) ==
    CASE result = "Ok" -> from_data(UserResponse(username))
      [] result = "UserNotFound" -> from_error("user_not_found")
      [] result = "IncorrectPassword" -> from_error("incorrect_password")
      [] result = "InternalError" -> from_residual

\* register: the match on auth.create_user(..).await?.  A panic of the hook
\* unwinds through the handler, which builds no response.
RegisterResponse(result, username) ==
    CASE result = "Ok" -> from_data(UserResponse(username))
      [] result = "InvalidUsername" -> from_error("invalid_username")
      [] result = "InvalidPassword" -> from_error("invalid_password")
      [] result = "UserAlreadyExists" -> from_error("user_already_exists")
      [] result = "InternalError" -> from_residual
      [] result = "Panic" -> [kind |-> "Panic"]

\* The response of the route that made the service call op.
RouteResponse(op, result, username) ==
    IF op = "login_user"
    THEN LoginResponse(result, username)
    ELSE RegisterResponse(result, username)

----------------------------------------------------------------------------
(* Auth service (app/auth.rs) *)

\* history: the successful create_user calls for this username that have
\* returned by now.
PriorCreated(username) == {c \in created : c.username = username}

\* The call of request p returns: its record moves to `returned`.
Return(p, c, result) ==
    /\ pc' = [pc EXCEPT ![p] = "ready"]
    /\ call' = [call EXCEPT ![p] = NoCall]
    /\ returned' = [op |-> c.op, username |-> c.username, password |-> c.password,
                    user_id |-> c.user_id, token |-> c.token, prior |-> c.prior,
                    ret |-> result,
                    response |-> RouteResponse(c.op, result, c.username)]

Continue(p, c, label) ==
    /\ pc' = [pc EXCEPT ![p] = label]
    /\ call' = [call EXCEPT ![p] = c]
    /\ returned' = returned

\* The requests are interchangeable: a new call takes the first free slot.
FreeSlot(p) == pc[p] = "ready" /\ \A q \in Procs : pc[q] = "ready" => p <= q

\* create_user's checks with the existence check made first.
CreateUserChecksExistenceFirst(username, password) ==
    IF does_user_exist_by_username(username) THEN "UserAlreadyExists"
    ELSE IF ~ validate_username(username) THEN "InvalidUsername"
    ELSE IF ~ validate_password(password) THEN "InvalidPassword"
    ELSE "proceed"

\* The checks create_user makes before it creates anything, in code order.
CreateUserChecks(username, password) ==
    IF ~ validate_username(username) THEN "InvalidUsername"
    ELSE IF ~ validate_password(password) THEN "InvalidPassword"
    ELSE IF does_user_exist_by_username(username) THEN "UserAlreadyExists"
    ELSE "proceed"

\* A create_user that stores the user record before it looks the username up.
CreateUserBeginStoresFirst(p, username, password) ==
    /\ phase = "serving"
    /\ FreeSlot(p)
    /\ calls_left > 0
    /\ calls_left' = calls_left - 1
    /\ LET c == [NoCall EXCEPT !.op = "create_user", !.username = username,
                               !.password = password,
                               !.prior = PriorCreated(username)]
           r == CreateUserChecks(username, password)
       IN  /\ IF r = "proceed"
              THEN Continue(p, c, "cu_create")
              ELSE Return(p, c, r)
           /\ IF r = "UserAlreadyExists" /\ next_id <= MaxUserId
              THEN UsersCreateUser(username, password)
              ELSE UNCHANGED users_vars
    /\ attempts' = [attempts EXCEPT ![username] = @ + 1]
    /\ UNCHANGED <<sessions, tasks_vars, phase, created, random_ids, issued, db, database>>

\* create_user, from its entry to the answer of does_user_exist_by_username.
CreateUserBegin(p, username, password) ==
    /\ phase = "serving"
    /\ FreeSlot(p)
    /\ calls_left > 0
    /\ calls_left' = calls_left - 1
    /\ LET c == [NoCall EXCEPT !.op = "create_user", !.username = username,
                               !.password = password,
                               !.prior = PriorCreated(username)]
           r == CreateUserChecks(username, password)
       IN  IF r = "proceed"
           THEN Continue(p, c, "cu_create")
           ELSE Return(p, c, r)
    /\ attempts' = [attempts EXCEPT ![username] = @ + 1]
    /\ UNCHANGED <<users_vars, sessions, tasks_vars, phase, created, random_ids, issued, db, database>>

\* create_user: self.users.create_user(username, password)
CreateUserInsert(p) ==
    /\ pc[p] = "cu_create"
    /\ next_id <= MaxUserId
    /\ UsersCreateUser(call[p].username, call[p].password)
    /\ Continue(p, [call[p] EXCEPT !.user_id = next_id], "cu_session")
    /\ UNCHANGED <<sessions, tasks_vars, phase, created, attempts, calls_left,
                   random_ids, issued, db, database>>

\* create_user: self.sessions.create_user_session(user_id)
CreateUserSession(p) ==
    /\ pc[p] = "cu_session"
    /\ \E r \in GenerateRandomToken :
        /\ sessions' = SessionsAfterCreate(r, call[p].user_id)
        /\ issued' = IssuedAfterCreate(r, call[p].user_id)
        /\ IF SessionTokenIsUnique(r)
           THEN Continue(p, [call[p] EXCEPT !.token = r], "cu_hook")
           ELSE Return(p, call[p], "InternalError")
    /\ UNCHANGED <<users_vars, tasks_vars, phase, created, attempts, calls_left,
                   random_ids, db, database>>

\* create_user: (self.on_created_user)(user_id), then Ok(Ok((user_id, token))).
\* The hook panics when add_categories fails.
CreateUserHook(p) ==
    /\ pc[p] = "cu_hook"
    /\ \E ids \in [1..Len(DEFAULT_CATEGORIES) -> random_ids] :
        /\ categories' = CategoriesAfterAdd(call[p].user_id, DEFAULT_CATEGORIES, ids)
        /\ IF CategoryIdsAreUnique(call[p].user_id, ids)
           THEN /\ Return(p, call[p], "Ok")
                /\ created' = created \cup
                       {[user_id |-> call[p].user_id, token |-> call[p].token,
                         username |-> call[p].username,
                         password |-> call[p].password]}
           ELSE /\ Return(p, call[p], "Panic")
                /\ created' = created
    /\ UNCHANGED <<users_vars, sessions, tasks, phase, attempts, calls_left,
                   random_ids, issued, db, database>>

\* login_user without the comparison of the passwords.
LoginUserChecksNoCompare(found, password) ==
    IF found = {} THEN "UserNotFound" ELSE "proceed"

\* login_user that takes an unknown username for a wrong password.
LoginUserChecksNoNotFound(found, password) ==
    IF found = {} THEN "IncorrectPassword"
    ELSE LET actual_password == (CHOOSE f \in found : TRUE)[2]
         IN  IF actual_password # password THEN "IncorrectPassword"
             ELSE "proceed"

\* The answer of login_user once find_user_with_password has returned.
LoginUserChecks(found, password) ==
    IF found = {} THEN "UserNotFound"
    ELSE LET actual_password == (CHOOSE f \in found : TRUE)[2]
         IN  IF actual_password # password THEN "IncorrectPassword"
             ELSE "proceed"

\* login_user, from its entry to the comparison of the passwords.
LoginUserBegin(p, username, password) ==
    /\ phase = "serving"
    /\ FreeSlot(p)
    /\ calls_left > 0
    /\ calls_left' = calls_left - 1
    /\ LET found == find_user_with_password(username)
           c == [NoCall EXCEPT !.op = "login_user", !.username = username,
                               !.password = password,
                               !.prior = {x \in PriorCreated(username) :
                                             x.password = password}]
           r == LoginUserChecks(found, password)
       IN  IF r = "proceed"
           THEN Continue(p, [c EXCEPT !.user_id = (CHOOSE f \in found : TRUE)[1]],
                         "lu_session")
           ELSE Return(p, c, r)
    /\ UNCHANGED <<users_vars, sessions, tasks_vars, phase, created, attempts,
                   random_ids, issued, db, database>>

\* login_user: self.sessions.create_user_session(user_id), then Ok(Ok(..)).
LoginUserSession(p) ==
    /\ pc[p] = "lu_session"
    /\ \E r \in GenerateRandomToken :
        /\ sessions' = SessionsAfterCreate(r, call[p].user_id)
        /\ issued' = IssuedAfterCreate(r, call[p].user_id)
        /\ IF SessionTokenIsUnique(r)
           THEN Return(p, [call[p] EXCEPT !.token = r], "Ok")
           ELSE Return(p, call[p], "InternalError")
    /\ UNCHANGED <<users_vars, tasks_vars, phase, created, attempts, calls_left,
                   random_ids, db, database>>

----------------------------------------------------------------------------
(* Specifications *)

Next ==
    \/ \E p \in Procs, c \in Credentials : CreateUserBegin(p, c[1], c[2])
    \/ \E p \in Procs : CreateUserInsert(p)
    \/ \E p \in Procs : CreateUserSession(p)
    \/ \E p \in Procs : CreateUserHook(p)
    \/ \E p \in Procs, c \in Credentials : LoginUserBegin(p, c[1], c[2])
    \/ \E p \in Procs : LoginUserSession(p)

\* The service as main.rs builds it.
Spec == Init /\ [][Next]_vars

NextSeeded ==
    \/ \E i \in UserIds, u \in Usernames, w \in SeedPasswords : AddUser(i, u, w)
    \/ NewAuthService
    \/ Next

\* The service as the tests build it, on seeded repositories.
SpecSeeded == InitSeeded /\ [][NextSeeded]_vars

\* The service as main.rs builds it, with category ids that may coincide.
InitHook ==
    /\ InitRepositories
    /\ InitRequests
    /\ random_ids = RandomIds
    /\ phase = "serving"

\* Registrations only, one after the other: the categories of a user are
\* written by that user's registration alone.
NextHook ==
    \/ \E c \in HookCredentials : CreateUserBegin(1, c[1], c[2])
    \/ CreateUserInsert(1)
    \/ CreateUserSession(1)
    \/ CreateUserHook(1)

SpecHook == InitHook /\ [][NextHook]_vars

----------------------------------------------------------------------------
(* The repositories called directly.  Every call is made on the in-memory
   repository and on the database repository, with the same arguments and the
   same generated ids, and `returned` keeps both answers. *)

\* The users the task calls are made for.
TaskUsers == {1, 2}

\* (label, description, category_id) of create_task and modify_task.
TaskInputs ==
    {[label |-> "a", description |-> "d", category_id |-> 1],
     [label |-> "b", description |-> "e", category_id |-> 2]}

\* The labels add_categories is called with.
CategoryBatches == {<<"x", "y">>}

\* (username, password) of the users repository's create_user.
RepoCredentials == {<<UserLower, PasswordA>>, <<UserLower, PasswordB>>}

\* Ok / Err of a call that returns no Option.
Classify(result) == IF result = "Ok" THEN "success" ELSE "failure"

InitRepos ==
    /\ InitRepositories
    /\ InitRequests
    /\ random_ids = RandomIds
    /\ phase = "repos"

RepoCall ==
    /\ phase = "repos"
    /\ calls_left > 0
    /\ calls_left' = calls_left - 1
    /\ UNCHANGED <<sessions, phase, pc, call, created, attempts, random_ids, issued,
                   database>>

\* UsersRepositry::create_user
RepoCreateUser(username, password) ==
    /\ RepoCall
    /\ next_id <= MaxUserId
    /\ UsersCreateUser(username, password)
    /\ db' = DbAfterCreateUser(username, password)
    /\ returned' = [op |-> "create_user", user_id |-> next_id,
                    mem |-> "success",
                    db |-> Classify(DbCreateUserResult(username))]
    /\ UNCHANGED tasks_vars

\* UsersRepositry::get_username
RepoGetUsername(user_id) ==
    /\ RepoCall
    /\ returned' = [op |-> "get_username", user_id |-> user_id,
                    mem |-> IF get_username(user_id) = {}
                            THEN "absence" ELSE "success",
                    mem_value |-> get_username(user_id),
                    db |-> DbGetUsername(user_id).class,
                    db_value |-> DbGetUsername(user_id).value]
    /\ UNCHANGED <<users_vars, tasks_vars, db, database>>

\* TasksRepository::create_task
RepoCreateTask(user_id, input) ==
    /\ RepoCall
    /\ \E task_id \in random_ids :
        /\ tasks' = TasksAfterCreate(user_id, task_id, input.label,
                                     input.description, input.category_id)
        /\ db' = [db EXCEPT !.tasks =
                     DbTasksAfterCreate(user_id, task_id, input.label,
                                        input.description, input.category_id)]
        /\ returned' = [op |-> "create_task", user_id |-> user_id,
                        task_id |-> task_id, input |-> input,
                        mem |-> Classify(CreateTaskResult(user_id, task_id)),
                        db |-> Classify(DbCreateTaskResult(user_id, task_id))]
    /\ UNCHANGED <<users_vars, categories>>

\* TasksRepository::modify_task
RepoModifyTask(user_id, task_id, input) ==
    /\ RepoCall
    /\ tasks' = TasksAfterModify(user_id, task_id, input.label,
                                 input.description, input.category_id)
    /\ db' = [db EXCEPT !.tasks =
                 DbTasksAfterModify(user_id, task_id, input.label,
                                    input.description, input.category_id)]
    /\ returned' = [op |-> "modify_task", user_id |-> user_id,
                    task_id |-> task_id, input |-> input,
                    mem |-> Classify(ModifyTaskResult(user_id, task_id)),
                    db |-> Classify(DbModifyTaskResult(user_id, task_id))]
    /\ UNCHANGED <<users_vars, categories>>

\* TasksRepository::delete_task
RepoDeleteTask(user_id, task_id) ==
    /\ RepoCall
    /\ tasks' = TasksAfterDelete(user_id, task_id)
    /\ db' = [db EXCEPT !.tasks = DbTasksAfterDelete(user_id, task_id)]
    /\ returned' = [op |-> "delete_task", user_id |-> user_id,
                    task_id |-> task_id,
                    mem |-> Classify(DeleteTaskResult(user_id, task_id)),
                    db |-> Classify(DbDeleteTaskResult(user_id, task_id))]
    /\ UNCHANGED <<users_vars, categories>>

\* TasksRepository::add_categories
RepoAddCategories(user_id, labels) ==
    /\ RepoCall
    /\ \E ids \in [1..Len(labels) -> random_ids] :
        /\ categories' = CategoriesAfterAdd(user_id, labels, ids)
        /\ db' = [db EXCEPT !.task_categories =
                     DbCategoriesAfterAdd(user_id, labels, ids)]
        /\ returned' = [op |-> "add_categories", user_id |-> user_id,
                        labels |-> labels, ids |-> ids,
                        mem |-> Classify(AddCategoriesResult(user_id, ids)),
                        db |-> Classify(DbAddCategoriesResult(user_id, ids))]
    /\ UNCHANGED <<users_vars, tasks>>

NextRepos ==
    \/ \E c \in RepoCredentials : RepoCreateUser(c[1], c[2])
    \/ \E i \in UserIds : RepoGetUsername(i)
    \/ \E u \in TaskUsers, i \in TaskInputs : RepoCreateTask(u, i)
    \/ \E u \in TaskUsers, t \in RandomIds, i \in TaskInputs : RepoModifyTask(u, t, i)
    \/ \E u \in TaskUsers, t \in RandomIds : RepoDeleteTask(u, t)
    \/ \E u \in TaskUsers, l \in CategoryBatches : RepoAddCategories(u, l)

\* Both backends from the empty state, under the same calls.
SpecRepos == InitRepos /\ [][NextRepos]_vars

----------------------------------------------------------------------------
(* Board assembly (api/controllers/tasks.rs) *)

\* Task of the board: a task description without its category id.
Task(t) == [task_id |-> t.task_id, label |-> t.label, description |-> t.description]

TaskCategory(ct) ==
    [category_id |-> ct.category_id, label |-> ct.label, ordered_tasks |-> <<>>]

\* indices.get(category_id): HashMap::from_iter keeps, of the entries with
\* one key, the one that comes last.
CategoryIndex(cs, category_id) ==
    CHOOSE j \in 1..Len(cs) :
        /\ cs[j].category_id = category_id
        /\ \A k \in 1..Len(cs) : cs[k].category_id = category_id => k <= j

\* A board assembly that leaves out the tasks whose category is missing.
MakeTasksBoardOmitting(ts, cs) ==
    LET indices == {cs[j].category_id : j \in 1..Len(cs)}
        after[k \in 0..Len(ts)] ==
            IF k = 0
            THEN [j \in 1..Len(cs) |-> TaskCategory(cs[j])]
            ELSE IF ts[k].category_id \notin indices
            THEN after[k - 1]
            ELSE [after[k - 1] EXCEPT
                     ![CategoryIndex(cs, ts[k].category_id)].ordered_tasks =
                         Append(@, Task(ts[k]))]
    IN  [ok |-> TRUE, ordered_categories |-> after[Len(ts)]]

\* make_tasks_board: Ok(TasksBoard) or Err.  after[k] is the state of the
\* loop over the tasks when k tasks are done.
make_tasks_board(ts, cs) ==
    LET indices == {cs[j].category_id : j \in 1..Len(cs)}
        after[k \in 0..Len(ts)] ==
            IF k = 0
            THEN [ok |-> TRUE,
                  ordered_categories |-> [j \in 1..Len(cs) |-> TaskCategory(cs[j])]]
            ELSE IF ~ after[k - 1].ok
            THEN after[k - 1]
            ELSE IF ts[k].category_id \notin indices
            THEN [ok |-> FALSE, ordered_categories |-> <<>>]
            ELSE [ok |-> TRUE,
                  ordered_categories |->
                     [after[k - 1].ordered_categories EXCEPT
                         ![CategoryIndex(cs, ts[k].category_id)].ordered_tasks =
                             Append(@, Task(ts[k]))]]
    IN  after[Len(ts)]

TasksBoard(ordered_categories) == [ordered_categories |-> ordered_categories]

\* A get_tasks that answers with whatever board the assembly left behind.
GetTasksResponseUnwrapped(board) == from_data(TasksBoard(board.ordered_categories))

\* get_tasks once both lists are fetched: make_tasks_board(..)? and
\* Response::from_data(tasks_board).
GetTasksResponse(board) ==
    IF board.ok
    THEN from_data(TasksBoard(board.ordered_categories))
    ELSE from_residual

\* The user whose board is asked for.
BoardUser == CHOOSE u \in TaskUsers : \A v \in TaskUsers : u <= v

SeqsUpTo(S, n) == UNION {[1..k -> S] : k \in 0..n}

\* The stored tasks and categories a board is assembled from: any ids, the
\* ids of the categories not necessarily distinct.
BoardTasks ==
    SeqsUpTo({TaskStorage(BoardUser, TaskDescription(t, "a", "d", c)) :
                 t \in RandomIds, c \in RandomIds}, MaxBoardLen)

BoardCategories ==
    SeqsUpTo({TaskCategoryStorage(BoardUser, c, l) :
                 c \in RandomIds, l \in {"x", "y"}}, MaxBoardLen)

InitBoard ==
    /\ next_id = 1
    /\ users_by_id = EmptyMap
    /\ users_by_name = EmptyMap
    /\ sessions = EmptyMap
    /\ db = EmptyDb
    /\ database = {}
    /\ tasks \in BoardTasks
    /\ categories \in BoardCategories
    /\ InitRequests
    /\ random_ids = RandomIds
    /\ phase = "board"

\* get_tasks: fetch_tasks, fetch_categories, make_tasks_board
GetTasks(user_id) ==
    /\ phase = "board"
    /\ returned.op = "none"
    /\ returned' = [op |-> "get_tasks", user_id |-> user_id,
                    tasks |-> fetch_tasks(user_id),
                    categories |-> fetch_categories(user_id),
                    board |-> make_tasks_board(fetch_tasks(user_id),
                                               fetch_categories(user_id)),
                    response |-> GetTasksResponse(
                        make_tasks_board(fetch_tasks(user_id),
                                         fetch_categories(user_id)))]
    /\ UNCHANGED <<users_vars, sessions, tasks_vars, phase, pc, call, created,
                   attempts, calls_left, random_ids, issued, db, database>>

NextBoard == GetTasks(BoardUser)

SpecBoard == InitBoard /\ [][NextBoard]_vars

\* get_tasks as one of the calls made on the tasks repository, with no other
\* call between its two fetches.
RepoGetTasks(user_id) ==
    /\ RepoCall
    /\ returned' = [op |-> "get_tasks", user_id |-> user_id,
                    tasks |-> fetch_tasks(user_id),
                    categories |-> fetch_categories(user_id),
                    response |-> GetTasksResponse(
                        make_tasks_board(fetch_tasks(user_id),
                                         fetch_categories(user_id)))]
    /\ UNCHANGED <<users_vars, tasks_vars, db, database>>

NextTasks ==
    \/ \E u \in TaskUsers, i \in TaskInputs : RepoCreateTask(u, i)
    \/ \E u \in TaskUsers, t \in RandomIds, i \in TaskInputs : RepoModifyTask(u, t, i)
    \/ \E u \in TaskUsers, t \in RandomIds : RepoDeleteTask(u, t)
    \/ \E u \in TaskUsers, l \in CategoryBatches : RepoAddCategories(u, l)
    \/ \E u \in TaskUsers : RepoGetTasks(u)

\* The routes of the tasks controller on the tasks repository.
SpecTasks == InitRepos /\ [][NextTasks]_vars

----------------------------------------------------------------------------
(* Tasks service (app/tasks.rs) beside the auth service *)

\* The range generate_random_task_id draws from where both services run: two
\* ids, so that a generated id can be new and can be taken.
ServiceRandomIds == {1, 2}

InitServices ==
    /\ InitRepositories
    /\ InitRequests
    /\ random_ids = ServiceRandomIds
    /\ phase = "serving"

\* The users a task route can act for: those a stored session resolves to.
AuthorizedUsers == {sessions[t] : t \in DOMAIN sessions}

\* One call of the tasks service made for an authorized user.
ServiceCall(user_id) ==
    /\ phase = "serving"
    /\ user_id \in AuthorizedUsers
    /\ calls_left > 0
    /\ calls_left' = calls_left - 1
    /\ UNCHANGED <<users_vars, sessions, categories, phase, pc, call, created,
                   attempts, random_ids, issued, db, database>>

\* TasksService::create_task
ServiceCreateTask(user_id, input) ==
    /\ ServiceCall(user_id)
    /\ \E task_id \in random_ids :
        /\ tasks' = TasksAfterCreate(user_id, task_id, input.label,
                                     input.description, input.category_id)
        /\ returned' = [op |-> "create_task", user_id |-> user_id,
                        task_id |-> task_id, input |-> input,
                        ret |-> CreateTaskResult(user_id, task_id)]

\* TasksService::modify_task
ServiceModifyTask(user_id, task_id, input) ==
    /\ ServiceCall(user_id)
    /\ tasks' = TasksAfterModify(user_id, task_id, input.label,
                                 input.description, input.category_id)
    /\ returned' = [op |-> "modify_task", user_id |-> user_id,
                    task_id |-> task_id, input |-> input,
                    ret |-> ModifyTaskResult(user_id, task_id)]

\* TasksService::delete_task
ServiceDeleteTask(user_id, task_id) ==
    /\ ServiceCall(user_id)
    /\ tasks' = TasksAfterDelete(user_id, task_id)
    /\ returned' = [op |-> "delete_task", user_id |-> user_id,
                    task_id |-> task_id,
                    ret |-> DeleteTaskResult(user_id, task_id)]

\* The calls of the auth service are made one after the other here; the calls
\* of the tasks service fall between their steps.
NextServices ==
    \/ \E c \in HookCredentials : CreateUserBegin(1, c[1], c[2])
    \/ CreateUserInsert(1)
    \/ CreateUserSession(1)
    \/ CreateUserHook(1)
    \/ \E c \in HookCredentials : LoginUserBegin(1, c[1], c[2])
    \/ LoginUserSession(1)
    \/ \E u \in UserIds, i \in TaskInputs : ServiceCreateTask(u, i)
    \/ \E u \in UserIds, t \in ServiceRandomIds, i \in TaskInputs :
          ServiceModifyTask(u, t, i)
    \/ \E u \in UserIds, t \in ServiceRandomIds : ServiceDeleteTask(u, t)

\* Both services as main.rs builds them, on the same repositories.
SpecServices == InitServices /\ [][NextServices]_vars

----------------------------------------------------------------------------
(* Session tokens as strings (model/sessions.rs) and the request guards
   (api/controllers/auth.rs) *)

\* The number of random bytes of a token and the length is_valid_token asks for.
TOKEN_BYTES == 16
TOKEN_LEN == 32

HexDigits == <<"0","1","2","3","4","5","6","7","8","9","a","b","c","d","e","f">>

\* hex::encode: two lowercase hexadecimal digits per byte.
RECURSIVE HexEncode(_)
HexEncode(bytes) ==
    IF bytes = <<>> THEN <<>>
    ELSE <<HexDigits[(Head(bytes) \div 16) + 1], HexDigits[(Head(bytes) % 16) + 1]>>
         \o HexEncode(Tail(bytes))

\* The random bytes token t of the model stands for.
TokenBytes(t) == [i \in 1..TOKEN_BYTES |-> IF i = TOKEN_BYTES THEN t ELSE 0]

\* SessionToken::generate_random: the string of token t.
TokenString(t) == HexEncode(TokenBytes(t))

\* SessionToken::is_valid_token: token.len() == 32, len() in bytes.
is_valid_token(token) == StrLen(token) = TOKEN_LEN

\* SessionToken::from_str: Option<SessionToken>
from_str(token) == IF is_valid_token(token) THEN {token} ELSE {}

\* Cookie::value_trimmed: the value without a surrounding pair of double
\* quotes.
ValueTrimmed(value) ==
    IF Len(value) >= 2 /\ value[1] = "\"" /\ value[Len(value)] = "\""
    THEN SubSeq(value, 2, Len(value) - 1)
    ELSE value

\* SessionTokenCookie::read; cookie is the Option the jar gives for "session".
ReadCookie(cookie) ==
    IF cookie = {} THEN {}
    ELSE from_str(ValueTrimmed(CHOOSE raw \in cookie : TRUE))

\* InMemorySessions::get_authorized_user_id on the string of a token.
GetAuthorizedUserIdOfString(token) ==
    UNION {get_authorized_user_id(t) : t \in {x \in Tokens : TokenString(x) = token}}

Forward(status) == [kind |-> "Forward", status |-> status]

\* impl FromRequest for AuthorizedUser, on top of the guard for SessionToken.
AuthorizedUserFromRequest(cookie) ==
    LET read == ReadCookie(cookie)
    IN  IF read = {} THEN Forward("Unauthorized")
        ELSE LET session_token == CHOOSE s \in read : TRUE
                 found == GetAuthorizedUserIdOfString(session_token)
             IN  IF found = {} THEN Forward("Unauthorized")
                 ELSE [kind |-> "Success",
                       user_id |-> CHOOSE u \in found : TRUE,
                       session_token |-> session_token]

Quoted(value) == <<"\"">> \o value \o <<"\"">>

\* The values of the session cookie: the strings of the tokens, bare and in
\* double quotes, and strings that are no generated token: of 32 characters
\* that are no hexadecimal digits, of 31 and of 33 characters, of 16
\* two-byte characters, of 32 characters one of which has two bytes, empty.
CookieValues ==
    {TokenString(t) : t \in Tokens}
    \cup {Quoted(TokenString(t)) : t \in Tokens}
    \cup {Run("z", TOKEN_LEN), Run("a", TOKEN_LEN - 1), Run("a", TOKEN_LEN + 1),
          Run("e-acute", TOKEN_BYTES),
          Run("a", TOKEN_LEN - 1) \o <<"e-acute">>, <<>>}

\* Option<&Cookie>: the request has no session cookie, or one with a value.
Cookies == {{}} \cup {{v} : v \in CookieValues}

InitGuard ==
    /\ InitRepositories
    /\ InitRequests
    /\ random_ids = AuthRandomIds
    /\ phase = "guard"

\* SessionsRepository::create_user_session(user_id), as login_user and
\* create_user call it.
GuardCreateSession(user_id) ==
    /\ phase = "guard"
    /\ calls_left > 0
    /\ calls_left' = calls_left - 1
    /\ \E r \in GenerateRandomToken :
          /\ sessions' = SessionsAfterCreate(r, user_id)
          /\ issued' = IssuedAfterCreate(r, user_id)
          /\ returned' = [op |-> "create_user_session", user_id |-> user_id,
                          ret |-> IF SessionTokenIsUnique(r) THEN "Ok" ELSE "Err",
                          token |-> IF SessionTokenIsUnique(r)
                                    THEN {TokenString(r)} ELSE {}]
    /\ UNCHANGED <<users_vars, tasks_vars, phase, pc, call, created, attempts,
                   random_ids, db, database>>

\* A request to a route that takes an AuthorizedUser.
GuardedRequest(cookie) ==
    /\ phase = "guard"
    /\ calls_left > 0
    /\ calls_left' = calls_left - 1
    /\ returned' = [op |-> "from_request", cookie |-> cookie,
                    read |-> ReadCookie(cookie),
                    outcome |-> AuthorizedUserFromRequest(cookie)]
    /\ UNCHANGED <<users_vars, sessions, tasks_vars, phase, pc, call, created,
                   attempts, random_ids, issued, db, database>>

NextGuard ==
    \/ \E u \in UserIds : GuardCreateSession(u)
    \/ \E c \in Cookies : GuardedRequest(c)

SpecGuard == InitGuard /\ [][NextGuard]_vars

----------------------------------------------------------------------------
(* The in-memory repositories, statement by statement.  A method locks the
   mutex of the data it works on, makes its reads and writes one after the
   other and unlocks when it returns; the methods run on concurrent requests.
   pc tells which mutex a request holds.  A method that makes one read, or
   fails before its first write, is one step. *)

\* The mutexes: InMemoryUsers::users, InMemorySessions::sessions,
\* InMemoryTasks::tasks, InMemoryTasks::categories.
Mutexes == {"users", "sessions", "tasks", "categories"}

\* Where a request stands while it holds the mutex.
HeldAt(mutex) ==
    CASE mutex = "users" -> {"users_create_1", "users_create_2"}
      [] mutex = "sessions" -> {"sessions_insert"}
      [] mutex = "tasks" -> {"tasks_push"}
      [] mutex = "categories" -> {"categories_push"}

Holds(p, mutex) == pc[p] \in HeldAt(mutex)

\* A lock() that returns although another request holds the mutex.
LockNeverWaits(mutex) == TRUE

\* Mutex::lock returns when no request holds the mutex.
MutexIsFree(mutex) == \A q \in Procs : ~ Holds(q, mutex)

\* The user the task, category and session calls are made for.
LockUser == BoardUser
LockCredentials == {<<UserLower, PasswordA>>, <<UserUpper, PasswordA>>}
LockTaskInput == [label |-> "a", description |-> "d", category_id |-> 1]
LockLabels == <<"x", "y">>

InitLocks ==
    /\ InitRepositories
    /\ InitRequests
    /\ random_ids = RandomIds
    /\ phase = "locks"

\* A request enters a repository method.
MethodCall(p) ==
    /\ phase = "locks"
    /\ FreeSlot(p)
    /\ calls_left > 0
    /\ calls_left' = calls_left - 1
    /\ UNCHANGED <<phase, created, attempts, random_ids, issued, db, database>>

\* A request goes on inside a method.
MethodStep(p, at) ==
    /\ pc[p] = at
    /\ UNCHANGED <<phase, created, attempts, random_ids, issued, db, database, calls_left>>

Returns(p, op, ret) ==
    /\ pc' = [pc EXCEPT ![p] = "ready"]
    /\ call' = [call EXCEPT ![p] = NoCall]
    /\ returned' = [op |-> op, proc |-> p, ret |-> ret]

\* InMemoryUsers::create_user: lock
UsersCreateLock(p, username, password) ==
    /\ MethodCall(p)
    /\ MutexIsFree("users")
    /\ next_id <= MaxUserId
    /\ pc' = [pc EXCEPT ![p] = "users_create_1"]
    /\ call' = [call EXCEPT ![p] =
                   [op |-> "create_user", username |-> username,
                    password |-> password, user_id |-> NoUserId,
                    seen |-> [next_id |-> next_id, users_by_id |-> users_by_id,
                              users_by_name |-> users_by_name]]]
    /\ UNCHANGED <<users_vars, sessions, tasks_vars, returned>>

\* InMemoryUsers::create_user: next_id, users_by_id.insert
UsersCreateStore(p) ==
    /\ MethodStep(p, "users_create_1")
    /\ next_id' = next_id + 1
    /\ users_by_id' = MapInsert(users_by_id, next_id,
                                UserStorage(call[p].username, call[p].password))
    /\ pc' = [pc EXCEPT ![p] = "users_create_2"]
    /\ call' = [call EXCEPT ![p].user_id = next_id]
    /\ UNCHANGED <<users_by_name, sessions, tasks_vars, returned>>

\* InMemoryUsers::create_user: users_by_name.insert, Ok(user_id)
UsersCreateIndex(p) ==
    /\ MethodStep(p, "users_create_2")
    /\ users_by_name' = MapInsert(users_by_name, call[p].username, call[p].user_id)
    /\ Returns(p, "create_user", call[p].user_id)
    /\ UNCHANGED <<next_id, users_by_id, sessions, tasks_vars>>

\* InMemoryUsers::find_user_with_password
UsersFind(p, username) ==
    /\ MethodCall(p)
    /\ MutexIsFree("users")
    /\ Returns(p, "find_user_with_password", find_user_with_password(username))
    /\ UNCHANGED <<users_vars, sessions, tasks_vars>>

\* InMemorySessions::create_user_session: generate_random, lock, contains_key
SessionsCreateLock(p, user_id) ==
    /\ MethodCall(p)
    /\ MutexIsFree("sessions")
    /\ \E r \in GenerateRandomToken :
          IF SessionTokenIsUnique(r)
          THEN /\ pc' = [pc EXCEPT ![p] = "sessions_insert"]
               /\ call' = [call EXCEPT ![p] =
                              [op |-> "create_user_session", user_id |-> user_id,
                               token |-> r,
                               expect |-> SessionsAfterCreate(r, user_id)]]
               /\ returned' = returned
          ELSE Returns(p, "create_user_session", "Err")
    /\ UNCHANGED <<users_vars, sessions, tasks_vars>>

\* InMemorySessions::create_user_session: insert, Ok(r)
SessionsCreateInsert(p) ==
    /\ MethodStep(p, "sessions_insert")
    /\ sessions' = MapInsert(sessions, call[p].token, call[p].user_id)
    /\ Returns(p, "create_user_session", call[p].token)
    /\ UNCHANGED <<users_vars, tasks_vars>>

\* InMemorySessions::get_authorized_user_id
SessionsGet(p, token) ==
    /\ MethodCall(p)
    /\ MutexIsFree("sessions")
    /\ Returns(p, "get_authorized_user_id", get_authorized_user_id(token))
    /\ UNCHANGED <<users_vars, sessions, tasks_vars>>

\* InMemoryTasks::create_task: generate_random_task_id, lock, find
TasksCreateLock(p, user_id, input) ==
    /\ MethodCall(p)
    /\ MutexIsFree("tasks")
    /\ \E task_id \in random_ids :
          IF CreateTaskResult(user_id, task_id) = "Ok"
          THEN /\ pc' = [pc EXCEPT ![p] = "tasks_push"]
               /\ call' = [call EXCEPT ![p] =
                              [op |-> "create_task", user_id |-> user_id,
                               task_id |-> task_id, input |-> input,
                               expect |-> TasksAfterCreate(user_id, task_id,
                                              input.label, input.description,
                                              input.category_id)]]
               /\ returned' = returned
          ELSE Returns(p, "create_task", "Err")
    /\ UNCHANGED <<users_vars, sessions, tasks_vars>>

\* InMemoryTasks::create_task: push, Ok(task_id)
TasksCreatePush(p) ==
    /\ MethodStep(p, "tasks_push")
    /\ tasks' = Append(tasks, TaskStorage(call[p].user_id,
                     TaskDescription(call[p].task_id, call[p].input.label,
                                     call[p].input.description,
                                     call[p].input.category_id)))
    /\ Returns(p, "create_task", call[p].task_id)
    /\ UNCHANGED <<users_vars, sessions, categories>>

\* InMemoryTasks::fetch_tasks
TasksFetch(p, user_id) ==
    /\ MethodCall(p)
    /\ MutexIsFree("tasks")
    /\ Returns(p, "fetch_tasks", fetch_tasks(user_id))
    /\ UNCHANGED <<users_vars, sessions, tasks_vars>>

\* InMemoryTasks::add_categories: the ids, lock, the loop of the checks
CategoriesAddLock(p, user_id, labels) ==
    /\ MethodCall(p)
    /\ MutexIsFree("categories")
    /\ \E ids \in [1..Len(labels) -> random_ids] :
          IF CategoryIdsAreUnique(user_id, ids)
          THEN /\ pc' = [pc EXCEPT ![p] = "categories_push"]
               /\ call' = [call EXCEPT ![p] =
                              [op |-> "add_categories", user_id |-> user_id,
                               labels |-> labels, ids |-> ids, pushed |-> 0,
                               expect |-> CategoriesAfterAdd(user_id, labels, ids)]]
               /\ returned' = returned
          ELSE Returns(p, "add_categories", "Err")
    /\ UNCHANGED <<users_vars, sessions, tasks_vars>>

\* InMemoryTasks::add_categories: one turn of the loop of the pushes;
\* Ok(descriptions) after the last.
CategoriesAddPush(p) ==
    /\ MethodStep(p, "categories_push")
    /\ LET i == call[p].pushed + 1
       IN  /\ categories' = Append(categories,
                   TaskCategoryStorage(call[p].user_id, call[p].ids[i],
                                       call[p].labels[i]))
           /\ IF i = Len(call[p].labels)
              THEN Returns(p, "add_categories", call[p].ids)
              ELSE /\ pc' = pc
                   /\ call' = [call EXCEPT ![p].pushed = i]
                   /\ returned' = returned
    /\ UNCHANGED <<users_vars, sessions, tasks>>

\* InMemoryTasks::fetch_categories
CategoriesFetch(p, user_id) ==
    /\ MethodCall(p)
    /\ MutexIsFree("categories")
    /\ Returns(p, "fetch_categories", fetch_categories(user_id))
    /\ UNCHANGED <<users_vars, sessions, tasks_vars>>

NextLocks ==
    \/ \E p \in Procs, c \in LockCredentials : UsersCreateLock(p, c[1], c[2])
    \/ \E p \in Procs : UsersCreateStore(p)
    \/ \E p \in Procs : UsersCreateIndex(p)
    \/ \E p \in Procs, c \in LockCredentials : UsersFind(p, c[1])
    \/ \E p \in Procs : SessionsCreateLock(p, LockUser)
    \/ \E p \in Procs : SessionsCreateInsert(p)
    \/ \E p \in Procs, t \in Tokens : SessionsGet(p, t)
    \/ \E p \in Procs : TasksCreateLock(p, LockUser, LockTaskInput)
    \/ \E p \in Procs : TasksCreatePush(p)
    \/ \E p \in Procs : TasksFetch(p, LockUser)
    \/ \E p \in Procs : CategoriesAddLock(p, LockUser, LockLabels)
    \/ \E p \in Procs : CategoriesAddPush(p)
    \/ \E p \in Procs : CategoriesFetch(p, LockUser)

SpecLocks == InitLocks /\ [][NextLocks]_vars

----------------------------------------------------------------------------
(* The calls of the services as sequences of repository methods, each of which
   waits for its mutex, runs under it and drops the guard when it returns.
   Only who waits and who holds is kept here; what the methods read and write
   is above. *)

\* The mutex a method of the in-memory repositories locks.
MutexOf(method) ==
    CASE method \in {"does_user_exist_by_username", "users.create_user",
                     "find_user_with_password"} -> "users"
      [] method \in {"get_authorized_user_id", "create_user_session"} -> "sessions"
      [] method \in {"fetch_tasks", "create_task", "modify_task", "delete_task"}
            -> "tasks"
      [] method \in {"fetch_categories", "add_categories"} -> "categories"

\* The repository methods a call of a service or route makes, in order.
MethodsOf(op) ==
    CASE op = "create_user" -> <<"does_user_exist_by_username", "users.create_user",
                                 "create_user_session", "add_categories">>
      [] op = "login_user" -> <<"find_user_with_password", "create_user_session">>
      [] op = "get_authorized_user_id" -> <<"get_authorized_user_id">>
      [] op = "get_tasks" -> <<"fetch_tasks", "fetch_categories">>
      [] op = "create_task" -> <<"create_task">>
      [] op = "modify_task" -> <<"modify_task">>
      [] op = "delete_task" -> <<"delete_task">>

ServiceOps ==
    {"create_user", "login_user", "get_authorized_user_id", "get_tasks",
     "create_task", "modify_task", "delete_task"}

\* The method request p is in.
CurrentMethod(p) == MethodsOf(call[p].op)[call[p].at]

\* Guards that live until the call of the service ends: the mutexes of the
\* methods the call has returned from.
HeldUntilCallEnds(p) ==
    IF pc[p] = "ready" THEN {}
    ELSE {MutexOf(MethodsOf(call[p].op)[k]) : k \in 1..(call[p].at - 1)}

\* The mutexes request p still holds from the methods it has returned from:
\* the guard is a local of the method and is dropped on every return.
HeldAfterReturn(p) == {}

\* The mutexes request p holds.
MutexesHeld(p) ==
    (IF pc[p] = "locked" THEN {MutexOf(CurrentMethod(p))} ELSE {})
    \cup HeldAfterReturn(p)

InitBlocking ==
    /\ InitRepositories
    /\ InitRequests
    /\ random_ids = AuthRandomIds
    /\ phase = "blocking"

\* A call of a service is issued: its first method is entered.
RequestIssue(p, op) ==
    /\ phase = "blocking"
    /\ FreeSlot(p)
    /\ calls_left > 0
    /\ calls_left' = calls_left - 1
    /\ pc' = [pc EXCEPT ![p] = "lock"]
    /\ call' = [call EXCEPT ![p] = [op |-> op, at |-> 1]]
    /\ UNCHANGED <<users_vars, sessions, tasks_vars, phase, returned, created,
                   attempts, random_ids, issued, db, database>>

\* Mutex::lock returns: no request holds the mutex of the method.
RequestLock(p) ==
    /\ pc[p] = "lock"
    /\ \A q \in Procs : MutexOf(CurrentMethod(p)) \notin MutexesHeld(q)
    /\ pc' = [pc EXCEPT ![p] = "locked"]
    /\ UNCHANGED <<users_vars, sessions, tasks_vars, phase, call, returned, created,
                   attempts, calls_left, random_ids, issued, db, database>>

\* The method returns, with Ok or Err, and its guard is dropped; the call goes
\* on to its next method or, after the last one or on an error, returns.
RequestUnlock(p) ==
    /\ pc[p] = "locked"
    /\ \/ /\ call[p].at < Len(MethodsOf(call[p].op))
          /\ pc' = [pc EXCEPT ![p] = "lock"]
          /\ call' = [call EXCEPT ![p].at = @ + 1]
       \/ /\ pc' = [pc EXCEPT ![p] = "ready"]
          /\ call' = [call EXCEPT ![p] = NoCall]
    /\ UNCHANGED <<users_vars, sessions, tasks_vars, phase, returned, created,
                   attempts, calls_left, random_ids, issued, db, database>>

NextBlocking ==
    \/ \E p \in Procs, op \in ServiceOps : RequestIssue(p, op)
    \/ \E p \in Procs : RequestLock(p)
    \/ \E p \in Procs : RequestUnlock(p)

\* Fair scheduling: a request that can take its mutex, or return from its
\* method, eventually does.
SpecBlocking ==
    /\ InitBlocking
    /\ [][NextBlocking]_vars
    /\ \A p \in Procs : WF_vars(RequestLock(p)) /\ WF_vars(RequestUnlock(p))

----------------------------------------------------------------------------
(* The legacy Context (context.rs): the database connection is made after
   construction and kept in a OnceLock.  `database` is the set of the
   connections the cell holds, empty or of one element; a connection is named
   by the request whose connect made it and the url it was made to.  `created` is here the history of
   the initialize_database calls that returned Ok. *)

\* response.rs: from_residual of a ServiceUnavailableError
ServiceUnavailable(reason) == [kind |-> "ServiceUnavailable", reason |-> reason]

\* A cell whose set replaces what it holds.
CellAfterReplace(connection) == {connection}

\* OnceLock::set: stores the value when the cell is empty, and otherwise
\* leaves the cell as it is and returns Err.
OnceLockAfterSet(connection) ==
    IF database = {} THEN {connection} ELSE database

\* The urls initialize_database is called with.
DatabaseUrls == {"postgres://primary", "postgres://replica"}

\* Context::new
InitContext ==
    /\ InitRepositories
    /\ InitRequests
    /\ random_ids = AuthRandomIds
    /\ phase = "context"

ContextStep ==
    /\ phase = "context"
    /\ UNCHANGED <<users_vars, sessions, tasks_vars, phase, attempts, random_ids,
                   issued, db>>

ContextReturns(p, op, ret) ==
    /\ pc' = [pc EXCEPT ![p] = "ready"]
    /\ call' = [call EXCEPT ![p] = NoCall]
    /\ returned' = [op |-> op, proc |-> p, ret |-> ret, server |-> database']

\* initialize_database: the check of get().is_some(), which panics
InitializeDatabaseBegin(p, url) ==
    /\ ContextStep
    /\ FreeSlot(p)
    /\ calls_left > 0
    /\ calls_left' = calls_left - 1
    /\ UNCHANGED <<database, created>>
    /\ IF database # {}
       THEN ContextReturns(p, "initialize_database", "Panic")
       ELSE /\ pc' = [pc EXCEPT ![p] = "init_connect"]
            /\ call' = [call EXCEPT ![p] = [op |-> "initialize_database", url |-> url]]
            /\ returned' = returned

\* initialize_database: DatabaseConnection::connect(url).await?
InitializeDatabaseConnect(p) ==
    /\ ContextStep
    /\ pc[p] = "init_connect"
    /\ UNCHANGED <<database, created, calls_left>>
    /\ \/ ContextReturns(p, "initialize_database", "Err")
       \/ /\ pc' = [pc EXCEPT ![p] = "init_set"]
          /\ call' = call
          /\ returned' = returned

\* initialize_database: self.database.set(db).ok().expect(..), then Ok(())
InitializeDatabaseSet(p) ==
    /\ ContextStep
    /\ pc[p] = "init_set"
    /\ database' = OnceLockAfterSet([proc |-> p, url |-> call[p].url])
    /\ IF database = {}
       THEN /\ ContextReturns(p, "initialize_database", "Ok")
            /\ created' = created \cup
                   {[op |-> "initialize_database",
                     connection |-> [proc |-> p, url |-> call[p].url]]}
       ELSE /\ ContextReturns(p, "initialize_database", "Panic")
            /\ created' = created
    /\ UNCHANGED calls_left

\* Context::server
ContextServer(p) ==
    /\ ContextStep
    /\ FreeSlot(p)
    /\ calls_left > 0
    /\ calls_left' = calls_left - 1
    /\ UNCHANGED <<database, created>>
    /\ ContextReturns(p, "server",
                      IF database = {}
                      THEN ServiceUnavailable("DatabaseConnection")
                      ELSE [kind |-> "Server"])

NextContext ==
    \/ \E p \in Procs, url \in DatabaseUrls : InitializeDatabaseBegin(p, url)
    \/ \E p \in Procs : InitializeDatabaseConnect(p)
    \/ \E p \in Procs : InitializeDatabaseSet(p)
    \/ \E p \in Procs : ContextServer(p)

SpecContext == InitContext /\ [][NextContext]_vars

----------------------------------------------------------------------------
(* The validation functions called directly (app/auth.rs) *)

\* The characters the validated strings are made of: a lowercase and an
\* uppercase letter, a digit, the underscore, a special character and the two
\* letters outside ASCII.
ValidationAlphabet == <<"a", "Z", "1", "_", "$", "e-acute", "E-acute">>

\* The strings of at most n characters made of the first k characters of the
\* alphabet, the characters in alphabet order.  validate_username and
\* validate_password read a string through len(), chars().all() and
\* chars().any() only, so the order of its characters plays no part.
RECURSIVE OrderedStrings(_, _)
OrderedStrings(k, n) ==
    IF k = 0 THEN {<<>>}
    ELSE UNION {{s \o Run(ValidationAlphabet[k], m) : s \in OrderedStrings(k - 1, n - m)} :
                   m \in 0..n}

Reverse(s) == [i \in 1..Len(s) |-> s[Len(s) + 1 - i]]

\* The strings validated: every choice of characters, in alphabet order and
\* in the opposite order.
ValidationInputs ==
    LET ordered == OrderedStrings(Len(ValidationAlphabet), MaxStrLen)
    IN  ordered \cup {Reverse(s) : s \in ordered}

InitValidate ==
    /\ InitRepositories
    /\ pc = [p \in Procs |-> "ready"]
    /\ \E s \in ValidationInputs :
          call = [p \in Procs |->
                    IF p = 1
                    THEN [NoCall EXCEPT !.op = "validate", !.username = s,
                                        !.password = s]
                    ELSE NoCall]
    /\ returned = NoReturn
    /\ created = {}
    /\ attempts = [u \in Usernames |-> 0]
    /\ issued = {}
    /\ calls_left = MaxCalls
    /\ random_ids = AuthRandomIds
    /\ phase = "validate"

\* validate_username(username)
ValidateUsername ==
    /\ phase = "validate"
    /\ returned.op = "none"
    /\ returned' = [op |-> "validate_username", input |-> call[1].username,
                    ret |-> validate_username(call[1].username)]
    /\ UNCHANGED <<users_vars, sessions, tasks_vars, phase, pc, call, created,
                   attempts, calls_left, random_ids, issued, db, database>>

\* validate_password(password)
ValidatePassword ==
    /\ phase = "validate"
    /\ returned.op = "none"
    /\ returned' = [op |-> "validate_password", input |-> call[1].password,
                    ret |-> validate_password(call[1].password)]
    /\ UNCHANGED <<users_vars, sessions, tasks_vars, phase, pc, call, created,
                   attempts, calls_left, random_ids, issued, db, database>>

NextValidate ==
    \/ ValidateUsername
    \/ ValidatePassword

SpecValidate == InitValidate /\ [][NextValidate]_vars

----------------------------------------------------------------------------
(* What the claims speak of *)

\* The password stored for a username, as find_user_with_password sees it.
StoredPassword(username) == {f[2] : f \in find_user_with_password(username)}

ValidCredentials(c) == validate_username(c.username) /\ validate_password(c.password)

\* This step is the entry of a login_user(username, password) call: the call
\* either answers at once or goes on to create its session.
LoginBegins(username, password) ==
    /\ calls_left' = calls_left - 1
    /\ \/ /\ pc' = pc
          /\ returned'.op = "login_user"
          /\ returned'.username = username
          /\ returned'.password = password
       \/ \E p \in Procs :
             /\ pc[p] = "ready"
             /\ pc'[p] = "lu_session"
             /\ call'[p].username = username
             /\ call'[p].password = password

\* This step is the create_user_session call of request p.
SessionStep(p) ==
    /\ pc[p] \in {"cu_session", "lu_session"}
    /\ pc'[p] # pc[p]

----------------------------------------------------------------------------
(* Claims *)

\* C1: login round trip.  For a user created by create_user(u, p), a later
\* login_user(u, p) succeeds with the id create_user returned and with a token
\* that resolves to that id; the token create_user returned resolves to it
\* too.  (A login that fails with the internal error of a token collision is
\* left aside here, so that what is shown is the answer of the users
\* repository.)
C1_LoginRoundTrip ==
    /\ \A c \in created : get_authorized_user_id(c.token) = {c.user_id}
    /\ (returned.op = "login_user" /\ returned.ret # "InternalError") =>
          \A c \in returned.prior :
              /\ returned.ret = "Ok"
              /\ returned.user_id = c.user_id
              /\ get_authorized_user_id(returned.token) = {c.user_id}

\* C2: of the create_user calls made with one username, at most one returns
\* success.
C2_AtMostOneCreateSucceeds ==
    \A c1, c2 \in created : c1.username = c2.username => c1 = c2

\* C3: no two stored user records with distinct ids have the same username.
C3_UsernameUnique ==
    \A i, j \in DOMAIN users_by_id :
        users_by_id[i].username = users_by_id[j].username => i = j

\* C4: after a successful create_user(u, p1), a later create_user(u, p2) with
\* a valid p2 returns UserAlreadyExists, the first call's token resolves to the
\* first user's id, and the password stored for u is still p1.
C4_SecondRegistration ==
    /\ \A c \in created : get_authorized_user_id(c.token) = {c.user_id}
    /\ (returned.op = "create_user" /\ validate_password(returned.password)) =>
          \A c \in returned.prior :
              /\ returned.ret = "UserAlreadyExists"
              /\ StoredPassword(returned.username) = {c.password}

\* C5: login_user(u, p) for a username that exists with a stored password
\* other than p answers IncorrectPassword at once and creates no session.
C5_IncorrectPassword ==
    [][\A c \in Credentials :
          ( /\ LoginBegins(c[1], c[2])
            /\ c[1] \in DOMAIN users_by_name
            /\ StoredPassword(c[1]) # {c[2]} )
          => /\ pc' = pc
             /\ returned'.ret = "IncorrectPassword"
             /\ returned'.token = NoToken
             /\ sessions' = sessions]_vars

C5_Witness ==
    /\ returned.op = "login_user"
    /\ returned.ret = "IncorrectPassword"
    /\ returned.username \in DOMAIN users_by_name
    /\ StoredPassword(returned.username) # {returned.password}

C7_CheckOrder ==
    /\ returned.op = "create_user" =>
          /\ ~ validate_username(returned.username)
                => returned.ret = "InvalidUsername"
          /\ (validate_username(returned.username)
              /\ ~ validate_password(returned.password))
                => returned.ret = "InvalidPassword"
          /\ returned.ret \in {"InvalidUsername", "InvalidPassword"}
                => returned.user_id = NoUserId
    /\ \A p \in Procs :
          call[p].op = "create_user" => ValidCredentials(call[p])

\* an invalid username that exists, and still InvalidUsername
C7_Witness ==
    /\ returned.op = "create_user"
    /\ returned.ret = "InvalidUsername"
    /\ returned.username \in DOMAIN users_by_name

\* C8: the users repository's create_user never overwrites a user record: the
\* id it returns is one no stored user has, and one no earlier call returned.
C8_CreateNeverOverwrites ==
    [][\A p \in Procs :
          (pc[p] = "cu_create" /\ pc'[p] = "cu_session")
          => /\ call'[p].user_id \notin DOMAIN users_by_id
             /\ \A c \in created : c.user_id # call'[p].user_id
             /\ \A q \in Procs : call[q].user_id # call'[p].user_id]_vars

\* What every successful create_user call leaves behind, whatever the
\* usernames: ids and tokens are pairwise distinct, each token resolves to its
\* own user's id and get_username gives the username registered.
CreatedUsersAreDistinct ==
    /\ \A c1, c2 \in created :
          (c1.user_id = c2.user_id \/ c1.token = c2.token) => c1 = c2
    /\ \A c \in created :
          /\ get_authorized_user_id(c.token) = {c.user_id}
          /\ get_username(c.user_id) = {c.username}

\* The call that returned last was create_user with valid credentials and a
\* username no other create_user call was made with.
SoleRegistrationReturned ==
    /\ returned.op = "create_user"
    /\ ValidCredentials(returned)
    /\ attempts[returned.username] = 1

\* C9 as stated: create_user calls with pairwise distinct usernames all
\* succeed, with pairwise distinct ids and tokens; each token resolves to its
\* own user's id and get_username gives the username registered.
C9_AllSucceed ==
    /\ CreatedUsersAreDistinct
    /\ SoleRegistrationReturned => returned.ret = "Ok"

\* C9 amended: such a call succeeds or fails with the internal error of
\* create_user_session (the user record is then stored, without a session);
\* it never gets a domain error.  The successful calls are as stated.
C9_SucceedOrInternalError ==
    /\ CreatedUsersAreDistinct
    /\ SoleRegistrationReturned =>
          \/ returned.ret = "Ok"
          \/ /\ returned.ret = "InternalError"
             /\ returned.token = NoToken
             /\ get_username(returned.user_id) = {returned.username}

\* two users registered concurrently, both calls returned
C9_Witness ==
    /\ Cardinality(created) = 2
    /\ SoleRegistrationReturned
    /\ returned.ret = "Ok"
    /\ \A c \in created : attempts[c.username] = 1

\* C10: create_user_session never overwrites a session.  It either fails with
\* the internal error and leaves the store as it was, or adds exactly one new
\* mapping token -> user_id and changes no other.
C10_SessionNeverOverwritten ==
    [][\A p \in Procs :
          SessionStep(p) =>
             \/ /\ sessions' = sessions
                /\ pc'[p] = "ready"
                /\ returned'.ret = "InternalError"
                /\ DOMAIN sessions # {}
             \/ \E r \in Tokens \ DOMAIN sessions :
                   /\ DOMAIN sessions' = DOMAIN sessions \cup {r}
                   /\ sessions'[r] = call[p].user_id
                   /\ \A t \in DOMAIN sessions : sessions'[t] = sessions[t]
                   /\ IF pc[p] = "cu_session"
                      THEN call'[p].token = r
                      ELSE returned'.token = r /\ returned'.ret = "Ok"]_vars

\* a session creation failed on a collision, and the token that was there
\* still resolves
C10_Witness ==
    /\ returned.ret = "InternalError"
    /\ returned.user_id # NoUserId
    /\ \E t \in DOMAIN sessions : sessions[t] # returned.user_id

\* C11: sessions are permanent and additive.  A token that resolves to a user
\* id resolves to the same id after every step; a successful login_user
\* returns a token that was not stored and was never issued before, and the
\* token resolves to the user logged in.
C11_SessionsPermanent ==
    [][/\ \A t \in DOMAIN sessions :
             t \in DOMAIN sessions' /\ sessions'[t] = sessions[t]
       /\ \A p \in Procs :
             (pc[p] = "lu_session" /\ pc'[p] = "ready" /\ returned'.ret = "Ok")
             => /\ returned'.token \notin DOMAIN sessions
                /\ \A i \in issued : i[1] # returned'.token
                /\ returned'.token \in DOMAIN sessions'
                /\ sessions'[returned'.token] = call[p].user_id]_vars

\* a user logged in while an earlier token of theirs is still there
C11_Witness ==
    /\ returned.op = "login_user"
    /\ returned.ret = "Ok"
    /\ \E t \in DOMAIN sessions :
          t # returned.token /\ sessions[t] = sessions[returned.token]

\* C12: session soundness.  get_authorized_user_id(token) is Some(x) exactly
\* when a successful create_user_session(x) returned that token; for a token
\* that was never issued it is None.
C12_SessionSoundness ==
    \A t \in Tokens :
        /\ \A x \in UserIds \cup {i[2] : i \in issued} :
              get_authorized_user_id(t) = {x} <=> <<t, x>> \in issued
        /\ (\A i \in issued : i[1] # t) => get_authorized_user_id(t) = {}

\* some token was issued, another never was
C12_Witness ==
    /\ issued # {}
    /\ \E t \in Tokens :
          (\A i \in issued : i[1] # t) /\ get_authorized_user_id(t) = {}

\* The labels and the ids of a fetched list of categories.
CategoryLabels(cs) == [i \in 1..Len(cs) |-> cs[i].label]
CategoryIds(cs) == [i \in 1..Len(cs) |-> cs[i].category_id]
PairwiseDistinct(seq) ==
    \A i, j \in 1..Len(seq) : seq[i] = seq[j] => i = j

\* What create_user leaves for the user it created, without the ids: the
\* three default labels, in that order.
DefaultLabelsSeeded ==
    \A c \in created :
        CategoryLabels(fetch_categories(c.user_id)) = DEFAULT_CATEGORIES

\* C13: when create_user has returned success, fetch_categories gives for the
\* new user exactly the three default categories "ToDo", "In progress",
\* "Completed", in that order, with pairwise distinct category ids.
C13_DefaultCategories ==
    \A c \in created :
        LET cs == fetch_categories(c.user_id)
        IN  /\ CategoryLabels(cs) = DEFAULT_CATEGORIES
            /\ PairwiseDistinct(CategoryIds(cs))

\* This step is a call of the repositories, whose answers are in returned'.
RepoStep(op) == calls_left' # calls_left /\ returned'.op = op

\* No stored task of the in-memory repository matches (user_id, task_id).
NoTaskMatches(user_id, task_id) ==
    \A k \in 1..Len(tasks) :
        ~ (tasks[k].user_id = user_id /\ tasks[k].task_desc.task_id = task_id)

\* C14: add_categories is all-or-nothing.  A call that fails leaves what
\* fetch_categories returns for every user as it was; a call that succeeds
\* appends one category per label, in label order, to the categories of its
\* user and leaves the other users' categories alone.  The same holds of the
\* database repository's transaction.
C14_AddCategoriesAllOrNothing ==
    [][\A u \in TaskUsers :
          (RepoStep("add_categories") /\ returned'.user_id = u) =>
             LET batch == [i \in 1..Len(returned'.labels) |->
                              TaskCategoryDescription(returned'.ids[i],
                                                      returned'.labels[i])]
             IN  /\ \A x \in TaskUsers \ {u} :
                       /\ fetch_categories(x)' = fetch_categories(x)
                       /\ DbFetchCategories(x)' = DbFetchCategories(x)
                 /\ IF returned'.mem = "failure"
                    THEN categories' = categories
                    ELSE fetch_categories(u)' = fetch_categories(u) \o batch
                 /\ IF returned'.db = "failure"
                    THEN db' = db
                    ELSE DbFetchCategories(u)' = DbFetchCategories(u) \o batch]_vars

\* an add_categories failed on the second id of its batch
C14_Witness ==
    /\ returned.op = "add_categories"
    /\ returned.mem = "failure"
    /\ \E k \in 1..Len(categories) :
          /\ categories[k].user_id = returned.user_id
          /\ categories[k].category_desc.category_id = returned.ids[2]
    /\ \A k \in 1..Len(categories) :
          ~ ( /\ categories[k].user_id = returned.user_id
              /\ categories[k].category_desc.category_id = returned.ids[1] )

\* C15: delete_task(user, task_id) fails when no stored task matches
\* (user, task_id), and the stored tasks are then unchanged.
C15_DeleteNotFound ==
    [][(RepoStep("delete_task")
        /\ NoTaskMatches(returned'.user_id, returned'.task_id))
       => /\ returned'.mem = "failure"
          /\ tasks' = tasks]_vars

\* C16: user isolation.  A create_task, modify_task or delete_task made for
\* one user changes neither fetch_tasks nor fetch_categories of another user.
C16_UserIsolation ==
    [][(\/ RepoStep("create_task")
        \/ RepoStep("modify_task")
        \/ RepoStep("delete_task"))
       => \A b \in TaskUsers \ {returned'.user_id} :
             /\ fetch_tasks(b)' = fetch_tasks(b)
             /\ fetch_categories(b)' = fetch_categories(b)]_vars

\* C17: modify_task(user, task_id, ...) fails when no stored task matches
\* (user, task_id), also when another user has a task with this id, and the
\* stored tasks are then unchanged.
C17_ModifyNotFound ==
    [][(RepoStep("modify_task")
        /\ NoTaskMatches(returned'.user_id, returned'.task_id))
       => /\ returned'.mem = "failure"
          /\ tasks' = tasks]_vars

\* a modify_task failed on a task id that another user has
C17_Witness ==
    /\ returned.op = "modify_task"
    /\ returned.mem = "failure"
    /\ \E k \in 1..Len(tasks) :
          /\ tasks[k].task_desc.task_id = returned.task_id
          /\ tasks[k].user_id # returned.user_id

\* The in-memory half of C18: None for an id no stored user has, else the
\* username stored under the id.
GetUsernameInMemory ==
    [][RepoStep("get_username") =>
          IF returned'.user_id \in DOMAIN users_by_id
          THEN /\ returned'.mem = "success"
               /\ returned'.mem_value = {users_by_id[returned'.user_id].username}
          ELSE returned'.mem = "absence"]_vars

\* C18: get_username(user_id) is None, not an error, for an id no stored user
\* has, and the user's username for an id a stored user has, in the
\* in-memory and in the database repository.
C18_GetUsernameAbsent ==
    [][RepoStep("get_username") =>
          LET i == returned'.user_id
              rows == SelectSeq(db.users, LAMBDA r : r.user_id = i)
          IN  /\ IF i \in DOMAIN users_by_id
                 THEN /\ returned'.mem = "success"
                      /\ returned'.mem_value = {users_by_id[i].username}
                 ELSE returned'.mem = "absence"
              /\ IF rows # <<>>
                 THEN /\ returned'.db = "success"
                      /\ returned'.db_value = {rows[1].username}
                 ELSE returned'.db = "absence"]_vars

\* The entries of a fetched list, without their order.
Entries(list) == {<<e, Cardinality({i \in 1..Len(list) : list[i] = e})>> :
                    e \in {list[i] : i \in 1..Len(list)}}

\* C19: backend equivalence.  Under the same calls from the empty state the
\* two repositories classify every call alike and their fetched task and
\* category lists hold the same entries.
C19_BackendsAgree ==
    phase = "repos" =>
        /\ returned.op # "none" => returned.mem = returned.db
        /\ \A u \in TaskUsers :
              /\ Entries(fetch_tasks(u)) = Entries(DbFetchTasks(u))
              /\ Entries(fetch_categories(u)) = Entries(DbFetchCategories(u))

\* The tasks of ts that `assign` puts under category j, as board tasks, in the
\* order of ts.
TasksUnder(ts, assign, j) ==
    LET upto[k \in 0..Len(ts)] ==
            IF k = 0 THEN <<>>
            ELSE IF assign[k] = j THEN Append(upto[k - 1], Task(ts[k]))
            ELSE upto[k - 1]
    IN  upto[Len(ts)]

\* C20: board assembly succeeds exactly when every fetched task's category_id
\* is among the fetched categories.  The board then lists every fetched
\* category once, in category-fetch order, and every fetched task once, under
\* a category whose id is the task's category_id, the tasks of a category in
\* task-fetch order.
C20_BoardAssembly ==
    returned.op = "get_tasks" =>
        LET ts == returned.tasks
            cs == returned.categories
            board == returned.board
            oc == board.ordered_categories
        IN  /\ board.ok <=>
                  \A i \in 1..Len(ts) :
                      \E j \in 1..Len(cs) : cs[j].category_id = ts[i].category_id
            /\ board.ok =>
                  /\ Len(oc) = Len(cs)
                  /\ \A j \in 1..Len(cs) :
                        /\ oc[j].category_id = cs[j].category_id
                        /\ oc[j].label = cs[j].label
                  /\ \E assign \in [1..Len(ts) -> 1..Len(cs)] :
                        /\ \A i \in 1..Len(ts) :
                              cs[assign[i]].category_id = ts[i].category_id
                        /\ \A j \in 1..Len(cs) :
                              oc[j].ordered_tasks = TasksUnder(ts, assign, j)

\* a board with a category that has no task and a category that has two
C20_Witness ==
    /\ returned.op = "get_tasks"
    /\ returned.board.ok
    /\ \E j, k \in 1..Len(returned.board.ordered_categories) :
          /\ returned.board.ordered_categories[j].ordered_tasks = <<>>
          /\ Len(returned.board.ordered_categories[k].ordered_tasks) = 2

\* The tasks a board shows, category after category.
RECURSIVE BoardTasksOf(_)
BoardTasksOf(oc) ==
    IF oc = <<>> THEN <<>> ELSE Head(oc).ordered_tasks \o BoardTasksOf(Tail(oc))

\* Some fetched task names a category that is not among the fetched ones.
SomeCategoryMissing(ts, cs) ==
    \E i \in 1..Len(ts) :
        \A j \in 1..Len(cs) : cs[j].category_id # ts[i].category_id

\* C21: get_tasks answers with the server error, and with no board, whenever
\* a fetched task names a category id that is not in the fetched category
\* list; a board that is returned shows every fetched task, under a category
\* with the task's category id, and no task more.
C21_MissingCategoryFails ==
    returned.op = "get_tasks" =>
        LET ts == returned.tasks
            cs == returned.categories
            resp == returned.response
        IN  /\ SomeCategoryMissing(ts, cs) => resp = from_residual
            /\ resp.kind = "Success" =>
                  /\ resp.error_code = ""
                  /\ \E b \in resp.data :
                        /\ resp.data = {b}
                        /\ Len(BoardTasksOf(b.ordered_categories)) = Len(ts)
                        /\ \A i \in 1..Len(ts) :
                              \E j \in 1..Len(b.ordered_categories) :
                                 /\ b.ordered_categories[j].category_id
                                       = ts[i].category_id
                                 /\ \E k \in 1..Len(b.ordered_categories[j].ordered_tasks) :
                                       b.ordered_categories[j].ordered_tasks[k]
                                          = Task(ts[i])

\* the first task's category is there, the second's is missing
C21_Witness ==
    /\ returned.op = "get_tasks"
    /\ returned.response = from_residual
    /\ Len(returned.tasks) = 2
    /\ \E j \in 1..Len(returned.categories) :
          returned.categories[j].category_id = returned.tasks[1].category_id
    /\ \A j \in 1..Len(returned.categories) :
          returned.categories[j].category_id # returned.tasks[2].category_id

\* What a successful create_task(user_id, input) that generated task_id
\* stores in the in-memory repository.
CreatedTask(user_id, task_id, input) ==
    TaskStorage(user_id, TaskDescription(task_id, input.label, input.description,
                                         input.category_id))

\* The user has a stored category with this id.
HasCategory(user_id, category_id) ==
    \E k \in 1..Len(categories) :
        /\ categories[k].user_id = user_id
        /\ categories[k].category_desc.category_id = category_id

\* What a create_task that answers Ok does: the task is appended with the
\* category_id it was called with and its id is one no other task of the user
\* has; the database row is inserted alike.
CreateTaskStores ==
    LET u == returned'.user_id
        t == returned'.task_id
    IN  /\ returned'.mem = "success" =>
              /\ tasks' = Append(tasks, CreatedTask(u, t, returned'.input))
              /\ NoTaskMatches(u, t)
        /\ returned'.db = "success" =>
              /\ db'.tasks = Append(db.tasks,
                     [user_id |-> u, task_id |-> t,
                      category_id |-> returned'.input.category_id,
                      label |-> returned'.input.label,
                      description |-> returned'.input.description])
              /\ DbTaskKeyIsFree(u, t)

\* C22 as stated: create_task succeeds whatever the category_id.
C22_CreateTaskAlwaysSucceeds ==
    [][RepoStep("create_task") =>
          /\ returned'.mem = "success"
          /\ returned'.db = "success"
          /\ CreateTaskStores]_vars

\* C22 amended: create_task never looks at the category_id.  It fails only
\* when the id it generated is the id of a stored task of the user, and then
\* stores nothing; else it succeeds, also with a category_id that names no
\* category of the user, and stores the task as stated.
C22_CreateTaskIgnoresCategory ==
    [][RepoStep("create_task") =>
          /\ returned'.mem = "failure" <=>
                ~ NoTaskMatches(returned'.user_id, returned'.task_id)
          /\ returned'.mem = "failure" => tasks' = tasks
          /\ returned'.db = "failure" <=>
                ~ DbTaskKeyIsFree(returned'.user_id, returned'.task_id)
          /\ returned'.db = "failure" => db' = db
          /\ CreateTaskStores]_vars

\* a task was created under a category id the user has no category with,
\* while the user has a category
C22_Witness ==
    /\ returned.op = "create_task"
    /\ returned.mem = "success"
    /\ ~ HasCategory(returned.user_id, returned.input.category_id)
    /\ fetch_categories(returned.user_id) # <<>>
    /\ \E k \in 1..Len(tasks) :
          tasks[k] = CreatedTask(returned.user_id, returned.task_id, returned.input)

DomainErrors ==
    {"UserNotFound", "IncorrectPassword", "InvalidUsername", "InvalidPassword",
     "UserAlreadyExists"}

\* The tag the claim gives each domain error.
TagOf(error) ==
    CASE error = "UserNotFound" -> "user_not_found"
      [] error = "IncorrectPassword" -> "incorrect_password"
      [] error = "InvalidUsername" -> "invalid_username"
      [] error = "InvalidPassword" -> "invalid_password"
      [] error = "UserAlreadyExists" -> "user_already_exists"

\* C24: the response of login and register.  A domain error gives a body
\* with the error's own tag and no data; success gives a body with the empty
\* error code and a payload; a failure of a repository gives the server
\* error, which has no body, so neither a tag nor data.
C24_ResponseClassification ==
    returned.op \in {"login_user", "create_user"} =>
        /\ returned.ret \in DomainErrors =>
              /\ returned.response.kind = "Success"
              /\ returned.response.error_code = TagOf(returned.ret)
              /\ returned.response.data = {}
        /\ returned.ret = "Ok" =>
              /\ returned.response.kind = "Success"
              /\ returned.response.error_code = ""
              /\ returned.response.data = {UserResponse(returned.username)}
        /\ returned.ret = "InternalError" =>
              /\ returned.response.kind = "ServerError"
              /\ DOMAIN returned.response = {"kind"}

\* a login with the right password failed in the sessions repository
C24_Witness ==
    /\ returned.op = "login_user"
    /\ returned.ret = "InternalError"
    /\ returned.response = from_residual
    /\ StoredPassword(returned.username) = {returned.password}

\* Request p returns from a method in this step.
MethodReturns(p, at) == pc[p] = at /\ pc'[p] = "ready"

\* At most one request is inside the methods that lock one mutex, and a
\* method that has locked a mutex leaves the data behind it as the method run
\* alone would have left the data it found when it locked: no other request
\* read or wrote that data in between.
MethodsAreAtomic ==
    /\ \A m \in Mutexes : \A p, q \in Procs :
          (Holds(p, m)' /\ Holds(q, m)') => p = q
    /\ \A p \in Procs :
          /\ MethodReturns(p, "users_create_2") =>
                LET seen == call[p].seen
                IN  /\ next_id' = seen.next_id + 1
                    /\ users_by_id' = MapInsert(seen.users_by_id, seen.next_id,
                          UserStorage(call[p].username, call[p].password))
                    /\ users_by_name' = MapInsert(seen.users_by_name,
                          call[p].username, seen.next_id)
                    /\ returned'.ret = seen.next_id
          /\ MethodReturns(p, "sessions_insert") => sessions' = call[p].expect
          /\ MethodReturns(p, "tasks_push") => tasks' = call[p].expect
          /\ MethodReturns(p, "categories_push") => categories' = call[p].expect

\* C27 as stated: every method of an in-memory repository is atomic with
\* respect to every other method of the same repository, the task and the
\* category methods under one shared lock: no request is inside a task method
\* while another is inside a category method.
C27_OneLockPerRepository ==
    [][/\ MethodsAreAtomic
       /\ \A p, q \in Procs :
             (Holds(p, "tasks")' /\ Holds(q, "categories")') => p = q]_vars

\* C27 amended: the methods on the users are atomic among themselves, so are
\* those on the sessions, those on the tasks and those on the categories; a
\* task method and a category method lock different mutexes and may overlap.
C27_OneLockPerCollection ==
    [][MethodsAreAtomic]_vars

\* a request is inside create_user, past its first write, while another is
\* inside create_user_session
C27_Witness ==
    \E p, q \in Procs :
        /\ pc[p] = "users_create_2"
        /\ Holds(q, "sessions")

\* The database half of C28: DELETE removes the rows that match and no other.
DbDeleteRemovesOne ==
    [][\A u \in TaskUsers, t \in RandomIds :
          ( /\ RepoStep("delete_task")
            /\ returned'.user_id = u /\ returned'.task_id = t
            /\ ~ DbTaskKeyIsFree(u, t) )
          => /\ returned'.db = "success"
             /\ db'.tasks = SelectSeq(db.tasks, LAMBDA r :
                                ~ (r.user_id = u /\ r.task_id = t))]_vars

\* C28: delete_task(user, task_id) on a stored task of that user succeeds and
\* removes that task and no other: afterwards fetch_tasks(user) has no task
\* with this id, and every other stored task is still there, unchanged and in
\* the same order.
C28_DeleteRemovesOne ==
    [][\A u \in TaskUsers, t \in RandomIds :
          ( /\ RepoStep("delete_task")
            /\ returned'.user_id = u /\ returned'.task_id = t
            /\ ~ NoTaskMatches(u, t) )
          => /\ returned'.mem = "success"
             /\ \A k \in 1..Len(tasks') :
                   ~ (tasks'[k].user_id = u /\ tasks'[k].task_desc.task_id = t)
             /\ tasks' = SelectSeq(tasks, LAMBDA x :
                             ~ (x.user_id = u /\ x.task_desc.task_id = t))]_vars

\* Every stored task of the user names a category stored for the user.
TasksReferenceOwnCategories(user_id) ==
    \A k \in 1..Len(tasks) :
        tasks[k].user_id = user_id
        => HasCategory(user_id, tasks[k].task_desc.category_id)

\* C29 as stated: every stored task names a category stored for its owner,
\* and get_tasks never fails.
C29_TasksReferenceCategories ==
    /\ \A u \in TaskUsers : TasksReferenceOwnCategories(u)
    /\ returned.op = "get_tasks" => returned.response.kind = "Success"

\* C29 amended: the reference is looked at only when the board is assembled.
\* get_tasks of a user, with no call between its fetches, answers with a
\* board exactly when every stored task of the user names a category stored
\* for the user, and with the server error otherwise.
C29_BoardChecksReferences ==
    returned.op = "get_tasks" =>
        IF TasksReferenceOwnCategories(returned.user_id)
        THEN /\ returned.response.kind = "Success"
             /\ returned.response.error_code = ""
             /\ returned.response.data # {}
        ELSE returned.response = from_residual

\* get_tasks failed for a user who has categories and, among the tasks, one
\* under a category id the user has no category with
C29_Witness ==
    /\ returned.op = "get_tasks"
    /\ returned.response = from_residual
    /\ returned.categories # <<>>
    /\ ~ TasksReferenceOwnCategories(returned.user_id)

\* The user records whose create_user call returned without success: the
\* record is stored, the call that stored it is no longer running and it is
\* not among the successful ones.  (Every record of a service built on empty
\* repositories was stored by a create_user call.)
LateFailures ==
    {i \in DOMAIN users_by_id :
        /\ \A c \in created : c.user_id # i
        /\ \A p \in Procs : ~ (call[p].op = "create_user" /\ call[p].user_id = i)}

\* This step is the entry of a create_user(username, password) call.
CreateBegins(username, password) ==
    /\ calls_left' = calls_left - 1
    /\ \/ /\ pc' = pc
          /\ returned'.op = "create_user"
          /\ returned'.username = username
          /\ returned'.password = password
       \/ \E p \in Procs :
             /\ pc[p] = "ready"
             /\ pc'[p] = "cu_create"
             /\ call'[p].username = username
             /\ call'[p].password = password

\* This step is the return of a login_user(username, password) call from its
\* create_user_session.
LoginReturns(username, password) ==
    \E p \in Procs :
        /\ pc[p] = "lu_session"
        /\ pc'[p] = "ready"
        /\ call[p].username = username
        /\ call[p].password = password

\* A create_user that fails after its user record was stored returns no
\* success and leaves the record: stored records never change, the failed call
\* answers with the server error, and the session store is as it was.
LateFailureKeepsRecord ==
    /\ \A i \in DOMAIN users_by_id :
          i \in DOMAIN users_by_id' /\ users_by_id'[i] = users_by_id[i]
    /\ \A p \in Procs :
          (/\ pc[p] \in {"cu_session", "cu_hook"}
           /\ pc'[p] = "ready"
           /\ returned'.ret # "Ok")
          => /\ returned'.ret \in {"InternalError", "Panic"}
             /\ returned'.response.kind # "Success"
             /\ returned'.user_id \in LateFailures'
             /\ users_by_id'[returned'.user_id]
                    = UserStorage(returned'.username, returned'.password)
             /\ created' = created

\* A retry of the failed registration is answered UserAlreadyExists.
RetryAlreadyExists ==
    \A i \in LateFailures :
        CreateBegins(users_by_id[i].username, users_by_id[i].password)
        => /\ pc' = pc
           /\ returned'.ret = "UserAlreadyExists"

\* A login with the credentials of the failed registration passes the checks
\* of login_user and returns success, unless its own create_user_session
\* fails.
LoginAfterLateFailure(i) ==
    /\ LoginBegins(users_by_id[i].username, users_by_id[i].password)
       => \E p \in Procs : pc[p] = "ready" /\ pc'[p] = "lu_session"
    /\ LoginReturns(users_by_id[i].username, users_by_id[i].password)
       => \/ returned'.ret = "Ok" /\ returned'.response.kind = "Success"
          \/ returned'.ret = "InternalError" /\ sessions' = sessions

\* The same while the username of the failed registration is on one record
\* only.
LateFailureLoginUniqueName ==
    [][ \A i \in LateFailures :
           (\A j \in DOMAIN users_by_id :
               users_by_id[j].username = users_by_id[i].username => j = i)
           => LoginAfterLateFailure(i) ]_vars

\* The record, the retry, and a login that is never answered UserNotFound.
LateFailureKeepsUser ==
    [][ /\ LateFailureKeepsRecord
        /\ RetryAlreadyExists
        /\ \A i \in LateFailures, w \in Passwords :
              LoginBegins(users_by_id[i].username, w)
              => ~ (pc' = pc /\ returned'.ret = "UserNotFound") ]_vars

\* C30: registration is not rolled back on a late failure.  When session
\* creation or seeding fails after the user record was stored, create_user
\* returns no success and the record stays; a retry with the same username is
\* answered UserAlreadyExists, and login_user with the original credentials
\* succeeds (a login whose own session creation fails is left aside).
C30_NoRollback ==
    [][ /\ LateFailureKeepsRecord
        /\ RetryAlreadyExists
        /\ \A i \in LateFailures : LoginAfterLateFailure(i) ]_vars

\* a login with the credentials of a failed registration succeeded, for a user
\* without categories
LateFailureLoginWithoutCategories ==
    /\ returned.op = "login_user"
    /\ returned.ret = "Ok"
    /\ returned.user_id \in LateFailures
    /\ users_by_id[returned.user_id] = UserStorage(returned.username, returned.password)
    /\ fetch_categories(returned.user_id) = <<>>

\* This step is a call that returns at its entry, with the result `ret`.
ReturnsAtEntry(op, ret) ==
    /\ calls_left' = calls_left - 1
    /\ pc' = pc
    /\ returned'.op = op
    /\ returned'.ret = ret

\* This step belongs to a login_user call: its entry or its session creation.
LoginStep ==
    \/ /\ calls_left' = calls_left - 1
       /\ \/ pc' = pc /\ returned'.op = "login_user"
          \/ \E p \in Procs : pc[p] = "ready" /\ pc'[p] = "lu_session"
    \/ \E p \in Procs : pc[p] = "lu_session" /\ pc'[p] = "ready"

\* C31: a call that returns a domain error changes nothing.  A create_user
\* that returns InvalidUsername, InvalidPassword or UserAlreadyExists and a
\* login_user that returns UserNotFound or IncorrectPassword leave the users,
\* sessions, tasks and categories as they were; no step of a login_user,
\* successful or not, changes the users, tasks or categories.
C31_DomainErrorsChangeNothing ==
    [][ /\ (\/ \E e \in {"InvalidUsername", "InvalidPassword", "UserAlreadyExists"} :
                 ReturnsAtEntry("create_user", e)
            \/ \E e \in {"UserNotFound", "IncorrectPassword"} :
                 ReturnsAtEntry("login_user", e))
           => UNCHANGED <<users_vars, sessions, tasks_vars>>
        /\ LoginStep => UNCHANGED <<users_vars, tasks_vars>> ]_vars

\* the last of the calls was a registration refused for its username being
\* taken, on stores that hold a user, a session and categories
C31_Witness ==
    /\ returned.op = "create_user"
    /\ returned.ret = "UserAlreadyExists"
    /\ users_by_id # EmptyMap
    /\ sessions # EmptyMap
    /\ categories # <<>>
    /\ calls_left = 0

\* The ids of the categories stored for a user, in store order.
StoredCategoryIds(user_id) ==
    [i \in 1..Len(fetch_categories(user_id)) |->
        fetch_categories(user_id)[i].category_id]

\* What add_categories does check: no category it pushes has the id of a
\* category that was stored for the user before the call.
BatchAvoidsStoredIds ==
    [][ \A k \in (Len(categories) + 1)..Len(categories') :
           \A j \in 1..Len(categories) :
               categories[j].user_id = categories'[k].user_id
               => categories[j].category_desc.category_id
                      # categories'[k].category_desc.category_id ]_vars

\* C32: category ids are unique per user.  No two categories stored for one
\* user have the same category_id, two categories pushed by one
\* add_categories batch included.
C32_CategoryIdsUnique ==
    \A u \in TaskUsers : PairwiseDistinct(StoredCategoryIds(u))

\* The ids of the tasks stored for a user, in store order.
StoredTaskIds(user_id) ==
    [i \in 1..Len(fetch_tasks(user_id)) |-> fetch_tasks(user_id)[i].task_id]

\* The stored tasks have a task of this user under this id.
UserHasTaskId(user_id, task_id) ==
    \E k \in 1..Len(tasks) :
        tasks[k].user_id = user_id /\ tasks[k].task_desc.task_id = task_id

\* C33: task ids are unique per user.  After every step no two tasks stored
\* for one user have the same task_id; a create_task whose generated id is the
\* id of a task of that user fails and stores nothing, and one whose generated
\* id is used by other users only succeeds and stores its task.
C33_TaskIdsUnique ==
    [][ /\ \A u \in TaskUsers : PairwiseDistinct(StoredTaskIds(u))'
        /\ \A u \in TaskUsers, t \in RandomIds :
              (/\ RepoStep("create_task")
               /\ returned'.user_id = u
               /\ returned'.task_id = t)
              => IF UserHasTaskId(u, t)
                 THEN returned'.mem = "failure" /\ tasks' = tasks
                 ELSE /\ returned'.mem = "success"
                      /\ Len(tasks') = Len(tasks) + 1
                      /\ tasks'[Len(tasks')].user_id = u
                      /\ tasks'[Len(tasks')].task_desc.task_id = t ]_vars

\* create_task succeeded with an id that a task of another user has, and
\* both tasks are stored
C33_Witness ==
    /\ returned.op = "create_task"
    /\ returned.mem = "success"
    /\ UserHasTaskId(returned.user_id, returned.task_id)
    /\ \E u \in TaskUsers \ {returned.user_id} : UserHasTaskId(u, returned.task_id)

\* C34: categories are immutable after registration.  No step of a login, of
\* a task create, modify or delete, or of another user's registration changes
\* what fetch_categories returns for a user registered through create_user:
\* the three default labels, in order, under the ids they were stored with.
C34_CategoriesImmutable ==
    [][ /\ \A c \in created :
              /\ fetch_categories(c.user_id)' = fetch_categories(c.user_id)
              /\ CategoryLabels(fetch_categories(c.user_id)) = DEFAULT_CATEGORIES
        /\ \A c \in created' :
              CategoryLabels(fetch_categories(c.user_id))' = DEFAULT_CATEGORIES ]_vars

\* two users are registered, and after the first registration a task was
\* created and stored
C34_Witness ==
    /\ Cardinality(created) = 2
    /\ tasks # <<>>
    /\ \A c \in created : Len(fetch_categories(c.user_id)) = Len(DEFAULT_CATEGORIES)

\* C35: a successful modify_task(user, task_id, label, description,
\* category_id) replaces the label, description and category_id of exactly the
\* task matching (user, task_id) and nothing else.  It succeeds whenever the
\* user has such a task, whatever the category_id; the task keeps its id,
\* owner and position, the number of tasks is unchanged and every other task
\* is unchanged, in the in-memory store and in the database alike.
C35_ModifyReplacesOneTask ==
    [][ \A u \in TaskUsers, t \in RandomIds :
          (/\ RepoStep("modify_task")
           /\ returned'.user_id = u
           /\ returned'.task_id = t)
          => /\ returned'.mem = "success" <=> UserHasTaskId(u, t)
             /\ returned'.mem = "success" =>
                   /\ Cardinality({k \in 1..Len(tasks) :
                          /\ tasks[k].user_id = u
                          /\ tasks[k].task_desc.task_id = t}) = 1
                   /\ Len(tasks') = Len(tasks)
                   /\ \A k \in 1..Len(tasks) :
                         IF tasks[k].user_id = u /\ tasks[k].task_desc.task_id = t
                         THEN tasks'[k] =
                                 TaskStorage(u, TaskDescription(t,
                                     returned'.input.label,
                                     returned'.input.description,
                                     returned'.input.category_id))
                         ELSE tasks'[k] = tasks[k]
                   /\ categories' = categories
             /\ returned'.db = "success" =>
                   /\ Len(db'.tasks) = Len(db.tasks)
                   /\ \A k \in 1..Len(db.tasks) :
                         IF db.tasks[k].user_id = u /\ db.tasks[k].task_id = t
                         THEN db'.tasks[k] =
                                 [user_id |-> u, task_id |-> t,
                                  category_id |-> returned'.input.category_id,
                                  label |-> returned'.input.label,
                                  description |-> returned'.input.description]
                         ELSE db'.tasks[k] = db.tasks[k]
                   /\ db'.task_categories = db.task_categories ]_vars

\* modify_task succeeded with a category id its user has no category with,
\* while a task of another user is stored under the same task id
C35_Witness ==
    /\ returned.op = "modify_task"
    /\ returned.mem = "success"
    /\ returned.db = "success"
    /\ ~ HasCategory(returned.user_id, returned.input.category_id)
    /\ \E k \in 1..Len(tasks) :
          /\ tasks[k].user_id # returned.user_id
          /\ tasks[k].task_desc.task_id = returned.task_id
          /\ tasks[k].task_desc.label # returned.input.label

\* Every entry of users_by_name points to a stored record, so the unwrap of
\* find_user_with_password finds one.
UsersByNameHasRecord ==
    \A u \in DOMAIN users_by_name : users_by_name[u] \in DOMAIN users_by_id

\* Every entry username -> id of users_by_name points to a record whose
\* username is that key.
UsersByNameMatchesRecord ==
    \A u \in DOMAIN users_by_name :
        /\ users_by_name[u] \in DOMAIN users_by_id
        /\ users_by_id[users_by_name[u]].username = u

\* Every record of users_by_id is what users_by_name gives for its username.
UsersByIdReachableByName ==
    \A i \in DOMAIN users_by_id :
        /\ users_by_id[i].username \in DOMAIN users_by_name
        /\ users_by_name[users_by_id[i].username] = i

\* C36: the two maps of the in-memory users repository agree.  Every entry
\* username -> id of users_by_name points to an entry of users_by_id whose
\* username is that key, and every record of users_by_id is reached through
\* users_by_name under its own username.
C36_UsersIndexConsistent ==
    /\ UsersByNameMatchesRecord
    /\ UsersByIdReachableByName

\* C37: no operation of the in-memory repositories blocks for ever.  A
\* request holds at most one mutex and none while it waits for one, and under
\* fair scheduling every call that was issued returns.
C37_NoOperationBlocks ==
    /\ [](\A p \in Procs :
            /\ Cardinality(MutexesHeld(p)) <= 1
            /\ pc[p] = "lock" => MutexesHeld(p) = {})
    /\ \A p \in Procs : (pc[p] # "ready") ~> (pc[p] = "ready")

\* a request waits for the mutex another request holds, in the last method
\* of a create_user that has taken and dropped three guards before
C37_Witness ==
    \E p, q \in Procs :
        /\ pc[p] = "lock"
        /\ pc[q] = "locked"
        /\ MutexOf(CurrentMethod(p)) \in MutexesHeld(q)
        /\ call[p].op = "create_user"
        /\ call[p].at = Len(MethodsOf("create_user"))

CharCount(s) == Len(s)

IsAscii(s) == \A i \in 1..Len(s) : Utf8Len(s[i]) = 1

\* What the guard of the last request was given, without the quotes.
PresentedValue == ValueTrimmed(CHOOSE raw \in returned.cookie : TRUE)

\* The part of C23 about the guard: an AuthorizedUser is granted only to a
\* request whose cookie is there, is read as a token and resolves to a user,
\* and it carries that user's id and that token.
GuardGrantsOnlyResolved ==
    returned.op = "from_request" =>
        IF /\ returned.cookie # {}
           /\ returned.read # {}
           /\ GetAuthorizedUserIdOfString(PresentedValue) # {}
        THEN /\ returned.outcome.kind = "Success"
             /\ GetAuthorizedUserIdOfString(PresentedValue)
                   = {returned.outcome.user_id}
             /\ returned.outcome.session_token = PresentedValue
        ELSE returned.outcome = Forward("Unauthorized")

\* C23: from_str returns a token for the strings of exactly 32 characters
\* and None for every other string; every generated token has 32 characters;
\* a request whose session cookie is missing, malformed or resolves to no user
\* is granted no AuthorizedUser, and a granted one carries the user id the
\* presented token resolves to.
C23_MalformedTokensRejected ==
    /\ \A t \in Tokens : CharCount(TokenString(t)) = TOKEN_LEN
    /\ returned.op = "create_user_session" =>
          \A s \in returned.token : CharCount(s) = TOKEN_LEN /\ from_str(s) = {s}
    /\ (returned.op = "from_request" /\ returned.cookie # {}) =>
          returned.read = IF CharCount(PresentedValue) = TOKEN_LEN
                          THEN {PresentedValue} ELSE {}
    /\ GuardGrantsOnlyResolved

\* The rule of C25 for the usernames made of ASCII characters only.
UsernameRuleOnAscii ==
    (returned.op = "validate_username" /\ IsAscii(returned.input)) =>
        ( returned.ret <=>
            /\ CharCount(returned.input) >= 6
            /\ \A i \in 1..Len(returned.input) :
                  \/ IsAlphabetic(returned.input[i])
                  \/ IsAsciiDigit(returned.input[i])
                  \/ returned.input[i] = "_" )

\* C25: validate_username(u) is true if and only if u has at least 6
\* characters and every character of u is a letter, an ASCII digit or an
\* underscore; a longer username is not refused for its length.
C25_UsernameRule ==
    returned.op = "validate_username" =>
        ( returned.ret <=>
            /\ CharCount(returned.input) >= 6
            /\ \A i \in 1..Len(returned.input) :
                  \/ IsAlphabetic(returned.input[i])
                  \/ IsAsciiDigit(returned.input[i])
                  \/ returned.input[i] = "_" )

\* The rule of C26 for the passwords made of ASCII characters only.
PasswordRuleOnAscii ==
    (returned.op = "validate_password" /\ IsAscii(returned.input)) =>
        LET p == returned.input
        IN  returned.ret <=>
              /\ CharCount(p) >= 8
              /\ \A i \in 1..Len(p) :
                    IsAlphabetic(p[i]) \/ IsAsciiDigit(p[i]) \/ p[i] \in {"$", "@", "!"}
              /\ \E i \in 1..Len(p) : IsLowercase(p[i])
              /\ \E i \in 1..Len(p) : IsUppercase(p[i])
              /\ \E i \in 1..Len(p) : IsAsciiDigit(p[i])
              /\ \E i \in 1..Len(p) : p[i] \in {"$", "@", "!"}

\* C26: validate_password(p) is true if and only if p has at least 8
\* characters, every character is a letter, an ASCII digit or one of $ @ !,
\* and p has a lowercase letter, an uppercase letter, an ASCII digit and one
\* of $ @ !.
C26_PasswordRule ==
    returned.op = "validate_password" =>
        LET p == returned.input
        IN  returned.ret <=>
              /\ CharCount(p) >= 8
              /\ \A i \in 1..Len(p) :
                    IsAlphabetic(p[i]) \/ IsAsciiDigit(p[i]) \/ p[i] \in {"$", "@", "!"}
              /\ \E i \in 1..Len(p) : IsLowercase(p[i])
              /\ \E i \in 1..Len(p) : IsUppercase(p[i])
              /\ \E i \in 1..Len(p) : IsAsciiDigit(p[i])
              /\ \E i \in 1..Len(p) : p[i] \in {"$", "@", "!"}

====
